---- MODULE Spec2Model ----
(***************************************************************************)
(* Order lifecycle, backup exporter and restore importer of the Mountain   *)
(* Made storefront.                                                        *)
(*                                                                         *)
(* The model follows models/Order.js (Order.create and the order-number    *)
(* allocation), routes/orders.js (POST /orders and POST /orders/quick-buy),*)
(* the admin controller's updateOrderStatus and deleteUser,                *)
(* controllers/backupController.js (createBackupInternal, the scheduler,   *)
(* its settings and the retention) and controllers/restoreController.js   *)
(* (restoreDatabase with its replays, repair, verification and recovery,   *)
(* the statement scanner and the COPY decoder).  The database a restore    *)
(* replays into is kept as the row counts of its critical tables.          *)
(* Every request handler and every tick                                    *)
(* of the scheduler runs its awaits one at a time, so each is a process    *)
(* whose steps are its queries and file operations.  The database is       *)
(* PostgreSQL at READ COMMITTED: a transaction's writes are private until  *)
(* COMMIT, row locks are held until the transaction ends, a unique index   *)
(* makes a second inserter of the same key wait for the first, and a       *)
(* failed statement aborts the transaction.                                *)
(***************************************************************************)
EXTENDS Integers, Sequences, FiniteSets, TLC

----------------------------------------------------------------------------
(* Bounds of the model *)

\* Requests accepted over a whole behaviour of each specification.
MaxAllocations == 3
MaxCreates == 2
MaxUpdates == 3
\* Largest quantity a client asks for.
MaxQty == 2
\* stock_quantity of every product in the initial state.
InitStock == 2
\* Requests accepted over a behaviour of the backup specifications.
MaxRequests == 3
MaxSettingsUpdates == 1
\* Rows table backups receives over a behaviour of the scheduler.
MaxBackups == 1
\* Lines of an uploaded file.
MaxLines == 3

\* Rows per critical table of the stores whose snapshots are uploaded.
MaxRows == 2

\* Characters of a text handed to splitSqlStatements.
MaxText == 6

\* Characters of a field value of a COPY row.
MaxValue == 2

\* Largest id of a restored row.
MaxId == 3

\* Statements the splitter hands to the loop of restoreWithPgClient.
MaxStatements == 3

(* Program constants *)

\* Order.create: const maxRetries = 5
maxRetries == 5

\* SQL NULL / JS null in an integer position.
NULL == -1

\* Concurrent request handlers (each with its own pooled client).
Handlers == {"h1", "h2"}

\* req.user.id of the order requests a handler serves: each handler stands
\* for the requests of one signed-in client.
principal == [h \in Handlers |-> IF h = "h1" THEN 1 ELSE 2]

\* Rows of table products: the catalog columns the order routes read.
products ==
  [p \in {1, 2} |->
     IF p = 1
     THEN [name |-> "ghee",  price |-> 50, wholesale_price |-> 40,   discount_price |-> NULL]
     ELSE [name |-> "honey", price |-> 30, wholesale_price |-> NULL, discount_price |-> 25]]

Products == DOMAIN products

\* A product id no row of products carries.
MissingProduct == 9

\* Authenticated principals that pass blockAdminCommerce: req.user.
users ==
  [u \in {1, 2} |->
     IF u = 1
     THEN [role |-> "customer",  is_approved |-> FALSE]
     ELSE [role |-> "wholesale", is_approved |-> TRUE]]

Users == DOMAIN users

\* The calendar dates new Date() returns while the model runs (JS fields:
\* getDate(), getMonth() is zero-based, getFullYear()).
Dates ==
  << [date |-> 31, month |-> 11, year |-> 2026],
     [date |-> 1,  month |-> 0,  year |-> 2027] >>

----------------------------------------------------------------------------
(* Strings: a string is a sequence of one-character strings. *)

DigitChars == <<"0", "1", "2", "3", "4", "5", "6", "7", "8", "9">>

IsDigit(c) == \E d \in 1..10 : DigitChars[d] = c

DigitVal(c) == (CHOOSE d \in 1..10 : DigitChars[d] = c) - 1

\* String(n) for a non-negative integer n.
RECURSIVE String(_)
String(n) ==
  IF n < 10 THEN << DigitChars[n + 1] >>
  ELSE String(n \div 10) \o << DigitChars[(n % 10) + 1] >>

\* s.padStart(n, '0')
RECURSIVE padStart(_, _)
padStart(s, n) == IF Len(s) >= n THEN s ELSE padStart(<<"0">> \o s, n)

\* parseInt(s, 10) for a string of digits.
RECURSIVE parseInt(_)
parseInt(s) ==
  IF Len(s) = 0 THEN 0
  ELSE parseInt(SubSeq(s, 1, Len(s) - 1)) * 10 + DigitVal(s[Len(s)])

StartsWith(s, prefix) ==
  /\ Len(s) >= Len(prefix)
  /\ SubSeq(s, 1, Len(prefix)) = prefix

----------------------------------------------------------------------------
(* Order numbers: Order.buildOrderNumberBase and Order.generateOrderNumber *)

buildOrderNumberBase(date) ==
  LET day   == padStart(String(date.date), 2)
      month == padStart(String(date.month + 1), 2)
      year  == String(date.year)
  IN <<"M", "M">> \o day \o month \o year

\* orderNumber.match(new RegExp(`^${base}-(\d+)$`)): the captured digits, or
\* <<>> when the order number does not match.
MatchSuffix(orderNumber, base) ==
  LET rest == SubSeq(orderNumber, Len(base) + 2, Len(orderNumber))
  IN IF /\ StartsWith(orderNumber, base \o <<"-">>)
        /\ Len(rest) >= 1
        /\ \A k \in 1..Len(rest) : IsDigit(rest[k])
     THEN rest
     ELSE <<>>

\* WHERE order_number = $1 OR order_number LIKE $2, with $2 = `${base}-%`
SelectExisting(rows, base) ==
  { r.order_number : r \in { o \in rows : \/ o.order_number = base
                                         \/ StartsWith(o.order_number, base \o <<"-">>) } }

SetMax(S) == CHOOSE m \in S : \A x \in S : x <= m

\* maxSuffix with the loop started at 0 instead of 1.
maxSuffixFromZero(existing, base) ==
  SetMax({0} \cup { parseInt(MatchSuffix(n, base)) :
                      n \in { e \in existing : MatchSuffix(e, base) # <<>> } })

\* The value the loop over `existing` leaves in maxSuffix.
maxSuffix(existing, base) ==
  SetMax({1} \cup { parseInt(MatchSuffix(n, base)) :
                      n \in { e \in existing : MatchSuffix(e, base) # <<>> } })

\* generateOrderNumber(client, base), given the rows the SELECT sees.
generateOrderNumber(rows, base) ==
  LET existing == SelectExisting(rows, base)
  IN IF base \notin existing
     THEN base
     ELSE base \o <<"-">> \o String(maxSuffix(existing, base) + 1)

----------------------------------------------------------------------------
(* SQL snapshot files: a file is the sequence of its lines *)

\* The tables createBackupInternal re-reads and restoreDatabase counts.
CriticalTables == {"users", "orders", "order_items"}

\* COPY public.<table> (...) FROM stdin;
CopyLine(t) == [kind |-> "copy", table |-> t, n |-> 0]

\* A data row of a COPY block (or any other line that is not blank).
RowLine == [kind |-> "row", table |-> "", n |-> 0]

\* \.
EndLine == [kind |-> "end", table |-> "", n |-> 0]

\* -- APP_<TABLE>_TOTAL:<n>
MarkerLine(t, n) == [kind |-> "marker", table |-> t, n |-> n]

\* INSERT INTO public.<table> (...) VALUES (...) ON CONFLICT (...) DO UPDATE ...;
InsertLine(t) == [kind |-> "insert", table |-> t, n |-> 0]

\* -- App-level <table> backup (...)
CommentLine(t) == [kind |-> "comment", table |-> t, n |-> 0]

BlankLine == [kind |-> "blank", table |-> "", n |-> 0]

\* line.trim().length > 0
NotBlank(line) == line.kind # "blank"

\* The COPY block pg_dump -F p writes for a table of n rows.
CopyBlock(t, n) == << CopyLine(t) >> \o [k \in 1..n |-> RowLine] \o << EndLine, BlankLine >>

\* -- Data for Name: <table>; Type: TABLE DATA; Schema: public; Owner: ...
\* the comment pg_dump -F p writes above the data of every table.
TocLine(t) == [kind |-> "toc", table |-> t, n |-> 0]

\* The file pg_dump writes for a store whose critical tables hold
\* rows.users, rows.orders and rows.order_items rows.
pgDump(rows) ==
  << TocLine("users") >> \o CopyBlock("users", rows.users)
    \o << TocLine("orders") >> \o CopyBlock("orders", rows.orders)
    \o << TocLine("order_items") >> \o CopyBlock("order_items", rows.order_items)

\* backupController.appendTableUpsertBlock(sqlFilePath, tableName, rows), with
\* n = rows.length: the file after fs.appendFile.
appendTableUpsertBlock(file, t, n) ==
  IF n = 0
  THEN file
  ELSE file \o << BlankLine, BlankLine, MarkerLine(t, n), CommentLine(t) >>
            \o [k \in 1..n |-> InsertLine(t)]

\* The for await loop of backupController.countTableRowsInSql from line k on;
\* s holds inCopyBlock, count and markerCount.
RECURSIVE countTableRowsLoop(_, _, _, _)
countTableRowsLoop(file, tableName, k, s) ==
  IF k > Len(file) THEN s
  ELSE
    CHOOSE result \in
      { LET line == file[k]
            m == IF v.markerCount = NULL /\ line.kind = "marker" /\ line.table = tableName
                 THEN line.n ELSE v.markerCount
        IN IF ~v.inCopyBlock
           THEN countTableRowsLoop(file, tableName, k + 1,
                  [ inCopyBlock |-> line.kind = "copy" /\ line.table = tableName,
                    count       |-> v.count,
                    markerCount |-> m ])
           ELSE IF line.kind = "end"
                THEN [v EXCEPT !.markerCount = m]
                ELSE countTableRowsLoop(file, tableName, k + 1,
                       [ inCopyBlock |-> TRUE,
                         count       |-> IF NotBlank(line) THEN v.count + 1 ELSE v.count,
                         markerCount |-> m ]) :
        v \in { s } } : TRUE

\* backupController.countTableRowsInSql(sqlFilePath, tableName)
countTableRowsInSql(file, tableName) ==
  LET s == countTableRowsLoop(file, tableName, 1,
                              [inCopyBlock |-> FALSE, count |-> 0, markerCount |-> NULL])
  IN IF s.markerCount # NULL THEN s.markerCount
     ELSE IF s.inCopyBlock THEN s.count ELSE 0

\* The for await loop of restoreController.countUsersRowsInSql from line k on.
RECURSIVE countUsersRowsLoop(_, _, _)
countUsersRowsLoop(file, k, s) ==
  IF k > Len(file) THEN s
  ELSE
    LET line == file[k]
        m == IF s.markerCount = NULL /\ line.kind = "marker" /\ line.table = "users"
             THEN line.n ELSE s.markerCount
    IN IF ~s.inUsersCopy
       THEN countUsersRowsLoop(file, k + 1,
              [ inUsersCopy |-> line.kind = "copy" /\ line.table = "users",
                count       |-> s.count,
                markerCount |-> m ])
       ELSE IF line.kind = "end"
            THEN [s EXCEPT !.markerCount = m]
            ELSE countUsersRowsLoop(file, k + 1,
                   [ inUsersCopy |-> TRUE,
                     count       |-> IF NotBlank(line) THEN s.count + 1 ELSE s.count,
                     markerCount |-> m ])

\* restoreController.countUsersRowsInSql(sqlFilePath)
countUsersRowsInSql(file) ==
  LET s == countUsersRowsLoop(file, 1,
                              [inUsersCopy |-> FALSE, count |-> 0, markerCount |-> NULL])
  IN IF s.markerCount # NULL THEN s.markerCount ELSE s.count

\* The for await loop of restoreController.countTableRowsInSql from line k on.
RECURSIVE restoreCountTableRowsLoop(_, _, _, _)
restoreCountTableRowsLoop(file, tableName, k, s) ==
  IF k > Len(file) THEN s
  ELSE
    LET line == file[k]
    IN IF ~s.inCopyBlock
       THEN restoreCountTableRowsLoop(file, tableName, k + 1,
              [ inCopyBlock |-> line.kind = "copy" /\ line.table = tableName,
                count       |-> s.count ])
       ELSE IF line.kind = "end"
            THEN s
            ELSE restoreCountTableRowsLoop(file, tableName, k + 1,
                   [ inCopyBlock |-> TRUE,
                     count       |-> IF NotBlank(line) THEN s.count + 1 ELSE s.count ])

\* restoreController.countTableRowsInSql(sqlFilePath, tableName); JS null is NULL.
restoreCountTableRowsInSql(file, tableName) ==
  LET s == restoreCountTableRowsLoop(file, tableName, 1, [inCopyBlock |-> FALSE, count |-> 0])
  IN IF s.inCopyBlock THEN s.count ELSE NULL

----------------------------------------------------------------------------
(* restoreController.js: the replay of a snapshot *)

\* Zero rows in every critical table.
NoneLoaded == [t \in CriticalTables |-> 0]

\* The table of the COPY block that line k of a snapshot is a data row or the
\* end of, "" when the line is outside every block: a block begins with the
\* first COPY line that no \. separates from line k.
blockOf(file, k) ==
  LET opened == { j \in 1..(k - 1) :
                    /\ file[j].kind = "copy"
                    /\ \A e \in j..(k - 1) : file[e].kind # "end" }
  IN IF opened = {} THEN ""
     ELSE file[CHOOSE j \in opened : \A m \in opened : j <= m].table

\* The rows a complete execution of the first n lines of a snapshot leaves in
\* the critical tables of a schema that was reset.  Rows are known by their
\* position in the table: a COPY block adds its data rows, and the k-th
\* INSERT ... ON CONFLICT ("id") DO UPDATE of a table adds a row only when the
\* table holds fewer than k rows.
loadedUpTo(file, n) ==
  LET rowsIn(blocks) ==
        [ t \in CriticalTables |->
            LET copied   == Cardinality({ k \in 1..n :
                              blocks[k] = t /\ file[k].kind # "end" /\ NotBlank(file[k]) })
                upserted == Cardinality({ k \in 1..n :
                              blocks[k] = "" /\ file[k].kind = "insert" /\ file[k].table = t })
            IN IF upserted > copied THEN upserted ELSE copied ]
  IN CHOOSE rows \in { rowsIn(blocks) : blocks \in { [k \in 1..n |-> blockOf(file, k)] } } : TRUE

loadedRows(file) == loadedUpTo(file, Len(file))

\* The first line of a snapshot that the in-process replay turns into a
\* statement PostgreSQL rejects, 0 when there is none.  sanitizeRestoreSqlContent
\* keeps comment lines, transformPlainSqlDump rewrites the COPY blocks and drops
\* the lines that start with a backslash, and splitSqlStatements knows no
\* comments: it cuts at the semicolons of pg_dump's "-- Data for Name: ...;
\* Type: TABLE DATA; ..." line, so that "Type: TABLE DATA" is sent as a statement
\* of its own.  A data row outside a COPY block is no statement either.
firstRejected(file) ==
  LET rejected == { k \in 1..Len(file) :
                      blockOf(file, k) = "" /\ file[k].kind \in {"toc", "row"} }
  IN IF rejected = {} THEN 0
     ELSE CHOOSE k \in rejected : \A m \in rejected : k <= m

\* restoreWithPgClient(sqlFilePath) against a database that answers every
\* query: the statements run up to the first one that is rejected, whose
\* error is not ignorable and is thrown.
restoreWithPgClient(file) ==
  LET replayUpTo(k) ==
        CHOOSE stats \in { [ thrown |-> k # 0, rows |-> loadedUpTo(file, n) ] :
                             n \in { IF k = 0 THEN Len(file) ELSE k - 1 } } : TRUE
  IN CHOOSE stats \in { replayUpTo(k) : k \in { firstRejected(file) } } : TRUE

\* The number of matches of /INSERT\s+INTO\s+(?:public\.)?<table>\b/ig.
insertStatements(file, tableName) ==
  Cardinality({ k \in 1..Len(file) : file[k].kind = "insert" /\ file[k].table = tableName })

\* restoreController.inspectTableDataInSql(sqlFilePath, tableName).hasData
inspectTableDataInSql(file, tableName) ==
  LET copyRows == restoreCountTableRowsInSql(file, tableName)
  IN (copyRows # NULL /\ copyRows > 0) \/ insertStatements(file, tableName) > 0

\* Errors execAsync rejects with when psql is run with ON_ERROR_STOP=1.  text
\* holds the phrases tested by the controller that occur in the lower-cased
\* `${error.message} ${error.stderr}`; class says what went wrong: the
\* executable is missing, a privilege or role statement was refused, or
\* anything else.
PsqlErrors ==
  { [code |-> "ENOENT", text |-> {}, class |-> "missing"],
    [code |-> "127", text |-> {"command not found"}, class |-> "missing"],
    [code |-> "1", text |-> {"not recognized as an internal or external command"},
     class |-> "missing"],
    [code |-> "3", text |-> {"permission denied to change default privileges"},
     class |-> "permission"],
    [code |-> "3", text |-> {"must be member of role", "role"}, class |-> "permission"],
    \* ERROR:  role "shop_owner" does not exist
    [code |-> "3", text |-> {"role", "does not exist"}, class |-> "permission"],
    \* ERROR:  syntax error at or near ...
    [code |-> "3", text |-> {}, class |-> "other"],
    \* ERROR:  column "role" of relation "users" does not exist
    [code |-> "3", text |-> {"role", "does not exist"}, class |-> "other"] }

isPsqlMissingError(error) ==
  \/ error.code = "ENOENT"
  \/ "not recognized as an internal or external command" \in error.text
  \/ "command not found" \in error.text
  \/ "no such file or directory" \in error.text

isNonCriticalPsqlPermissionError(error) ==
  \/ "permission denied to change default privileges" \in error.text
  \/ "must be member of role" \in error.text
  \/ ("role" \in error.text /\ "does not exist" \in error.text)

----------------------------------------------------------------------------
(* restoreController.js: the scanner and the COPY decoder of the in-process replay *)

\* JS null in a string position.
null == << "null" >>

Backslash == "\\"
TAB == "\t"
LF == "\n"
CR == "\r"
FF == "\f"
\* The backspace and the vertical tab, which have no escape in a TLA+ string.
BS == "<BS>"
VT == "<VT>"

\* /\s/
Whitespace == {" ", TAB, LF, CR, FF, VT}

\* s.trim()
RECURSIVE trim(_)
trim(s) ==
  IF Len(s) = 0 THEN s
  ELSE IF s[1] \in Whitespace THEN trim(Tail(s))
  ELSE IF s[Len(s)] \in Whitespace THEN trim(SubSeq(s, 1, Len(s) - 1))
  ELSE s

\* [A-Za-z0-9_]
TagChars ==
  { "a", "b", "c", "d", "e", "f", "g", "h", "i", "j", "k", "l", "m", "n", "o", "p", "q",
    "r", "s", "t", "u", "v", "w", "x", "y", "z", "A", "B", "C", "D", "E", "F", "G", "H",
    "I", "J", "K", "L", "M", "N", "O", "P", "Q", "R", "S", "T", "U", "V", "W", "X", "Y",
    "Z", "_" } \cup { DigitChars[d] : d \in 1..10 }

\* sqlContent.slice(index).match(/^\$[A-Za-z0-9_]*\$/): the match, or the empty
\* string when there is none.  index is one-based and sqlContent[index] is "$";
\* k is the position the match has reached.
RECURSIVE tagMatchLoop(_, _, _)
tagMatchLoop(sqlContent, index, k) ==
  IF k > Len(sqlContent) THEN <<>>
  ELSE IF sqlContent[k] = "$" THEN SubSeq(sqlContent, index, k)
  ELSE IF sqlContent[k] \in TagChars THEN tagMatchLoop(sqlContent, index, k + 1)
  ELSE <<>>

\* A scanner that knows no dollar-quoted blocks.
tagMatchNever(sqlContent, index) == <<>>

tagMatch(sqlContent, index) == tagMatchLoop(sqlContent, index, index + 1)

\* statements.push(statement) when the trimmed slice is not empty.
pushStatement(statements, slice) ==
  IF trim(slice) # <<>> THEN Append(statements, trim(slice)) ELSE statements

\* The for loop of splitSqlStatements from index on (one-based); s holds start,
\* inSingleQuote, dollarQuoteTag (empty for null) and statements.
RECURSIVE splitLoop(_, _, _)
splitLoop(sqlContent, index, s) ==
  IF index > Len(sqlContent)
  THEN pushStatement(s.statements, SubSeq(sqlContent, s.start, Len(sqlContent)))
  ELSE
    LET char == sqlContent[index]
    IN IF s.inSingleQuote
       THEN IF char = "'" /\ index < Len(sqlContent) /\ sqlContent[index + 1] = "'"
            THEN splitLoop(sqlContent, index + 2, s)
            ELSE IF char = "'"
                 THEN splitLoop(sqlContent, index + 1, [s EXCEPT !.inSingleQuote = FALSE])
                 ELSE splitLoop(sqlContent, index + 1, s)
       ELSE IF s.dollarQuoteTag # <<>>
       THEN IF StartsWith(SubSeq(sqlContent, index, Len(sqlContent)), s.dollarQuoteTag)
            THEN splitLoop(sqlContent, index + Len(s.dollarQuoteTag),
                           [s EXCEPT !.dollarQuoteTag = <<>>])
            ELSE splitLoop(sqlContent, index + 1, s)
       ELSE IF char = "'"
       THEN splitLoop(sqlContent, index + 1, [s EXCEPT !.inSingleQuote = TRUE])
       ELSE IF char = "$" /\ tagMatch(sqlContent, index) # <<>>
       THEN splitLoop(sqlContent, index + Len(tagMatch(sqlContent, index)),
                      [s EXCEPT !.dollarQuoteTag = tagMatch(sqlContent, index)])
       ELSE IF char = ";"
       THEN splitLoop(sqlContent, index + 1,
                      [s EXCEPT !.statements = pushStatement(@, SubSeq(sqlContent, s.start, index)),
                                !.start = index + 1])
       ELSE splitLoop(sqlContent, index + 1, s)

\* restoreController.splitSqlStatements(sqlContent)
splitSqlStatements(sqlContent) ==
  splitLoop(sqlContent, 1,
            [start |-> 1, inSingleQuote |-> FALSE, dollarQuoteTag |-> <<>>, statements |-> <<>>])

\* s.replace(/<pattern>/g, replacement) for a pattern that is a fixed string.
RECURSIVE replaceAll(_, _, _)
replaceAll(s, pattern, replacement) ==
  IF Len(s) = 0 THEN s
  ELSE IF StartsWith(s, pattern)
       THEN replacement \o replaceAll(SubSeq(s, Len(pattern) + 1, Len(s)), pattern, replacement)
       ELSE << s[1] >> \o replaceAll(Tail(s), pattern, replacement)

\* restoreController.decodeCopyValue(value).  In the source of a regular
\* expression literal \\ matches one backslash, so /\\\\t/ matches two
\* backslashes and a t, and /\\\\\\\\/ matches four backslashes.
decodeCopyValue(value) ==
  IF value = << Backslash, "N" >> THEN null
  ELSE
    LET v1 == replaceAll(value, << Backslash, Backslash, "t" >>, << TAB >>)
        v2 == replaceAll(v1, << Backslash, Backslash, "n" >>, << LF >>)
        v3 == replaceAll(v2, << Backslash, Backslash, "r" >>, << CR >>)
        v4 == replaceAll(v3, << Backslash, Backslash, "b" >>, << BS >>)
        v5 == replaceAll(v4, << Backslash, Backslash, "f" >>, << FF >>)
        v6 == replaceAll(v5, << Backslash, Backslash, "v" >>, << VT >>)
    IN replaceAll(v6, << Backslash, Backslash, Backslash, Backslash >>, << Backslash >>)

\* restoreController.toSqlLiteral(value)
toSqlLiteral(value) ==
  IF value = null THEN << "N", "U", "L", "L" >>
  ELSE << "'" >> \o replaceAll(value, << "'" >>, << "'", "'" >>) \o << "'" >>

\* rowLine.split('\t')
RECURSIVE splitTab(_)
splitTab(rowLine) ==
  IF \A k \in 1..Len(rowLine) : rowLine[k] # TAB THEN << rowLine >>
  ELSE LET k == CHOOSE j \in 1..Len(rowLine) :
                  rowLine[j] = TAB /\ \A i \in 1..(j - 1) : rowLine[i] # TAB
       IN << SubSeq(rowLine, 1, k - 1) >> \o splitTab(SubSeq(rowLine, k + 1, Len(rowLine)))

\* The INSERT statements transformPlainSqlDump pushes for the data rows of one
\* COPY block: none for an empty line, one for every other line, with one
\* literal per field.
RECURSIVE transformCopyRows(_, _, _)
transformCopyRows(tableName, columns, rowLines) ==
  IF Len(rowLines) = 0 THEN <<>>
  ELSE
    LET rowLine == Head(rowLines)
        values == [k \in 1..Len(splitTab(rowLine)) |-> decodeCopyValue(splitTab(rowLine)[k])]
        literals == [k \in 1..Len(values) |-> toSqlLiteral(values[k])]
        rest == transformCopyRows(tableName, columns, Tail(rowLines))
    IN IF Len(rowLine) = 0 THEN rest
       ELSE << [table |-> tableName, columns |-> columns, literals |-> literals] >> \o rest

\* The text of a field in a COPY block as pg_dump -F p writes it: \N for NULL,
\* a backslash escape for the backslash and for every control character.
RECURSIVE copyText(_)
copyText(value) ==
  IF value = null THEN << Backslash, "N" >>
  ELSE IF Len(value) = 0 THEN <<>>
  ELSE LET c == Head(value)
           e == IF c = Backslash THEN << Backslash, Backslash >>
                ELSE IF c = TAB THEN << Backslash, "t" >>
                ELSE IF c = LF THEN << Backslash, "n" >>
                ELSE IF c = CR THEN << Backslash, "r" >>
                ELSE IF c = BS THEN << Backslash, "b" >>
                ELSE IF c = FF THEN << Backslash, "f" >>
                ELSE IF c = VT THEN << Backslash, "v" >>
                ELSE << c >>
       IN e \o copyText(Tail(value))

\* The line of a COPY block for a row with the given field values.
RECURSIVE copyRowLine(_)
copyRowLine(fields) ==
  IF Len(fields) = 1 THEN copyText(fields[1])
  ELSE copyText(fields[1]) \o << TAB >> \o copyRowLine(Tail(fields))

----------------------------------------------------------------------------
(* Dates and the automated-backup settings of backupController.js *)

\* The instants new Date() returns in the backup controller while the model
\* runs (JS fields; getMonth() is zero-based).
Instants ==
  << [year |-> 2027, month |-> 0, date |-> 31, hours |-> 1, minutes |-> 0],
     [year |-> 2027, month |-> 0, date |-> 31, hours |-> 3, minutes |-> 0],
     [year |-> 2027, month |-> 2, date |-> 31, hours |-> 3, minutes |-> 0] >>

\* a < b on Date values.
Earlier(a, b) ==
  LET key(d) == (((d.year * 12 + d.month) * 32 + d.date) * 24 + d.hours) * 60 + d.minutes
  IN key(a) < key(b)

\* new Date(year, month + 1, 0).getDate()
lastDayOfMonth(year, month) ==
  IF month = 1
  THEN IF (year % 4 = 0 /\ year % 100 # 0) \/ year % 400 = 0 THEN 29 ELSE 28
  ELSE IF month \in {3, 5, 8, 10} THEN 30 ELSE 31

\* d.setMonth(d.getMonth() - k): a day the target month does not have rolls
\* over into the month after it.
setMonthBack(d, k) ==
  LET m0     == d.month - k
      year   == d.year + (m0 \div 12)
      month  == m0 % 12
      last   == lastDayOfMonth(year, month)
  IN IF d.date <= last
     THEN [d EXCEPT !.year = year, !.month = month]
     ELSE [d EXCEPT !.year  = IF month = 11 THEN year + 1 ELSE year,
                    !.month = (month + 1) % 12,
                    !.date  = d.date - last]

isSameDate(a, b) == a.year = b.year /\ a.month = b.month /\ a.date = b.date

isSameMonth(a, b) == a.year = b.year /\ a.month = b.month

Min(a, b) == IF a < b THEN a ELSE b

Max(a, b) == IF a > b THEN a ELSE b

\* A time of day 'HH:MM' is the pair <<HH, MM>>; <<>> is a value that does not
\* match /^\d{2}:\d{2}$/ (undefined included).
normalizeAutoBackupTime(value) ==
  IF value = <<>> THEN <<2, 0>>
  ELSE IF value[1] < 0 \/ value[1] > 23 \/ value[2] < 0 \/ value[2] > 59 THEN <<2, 0>>
  ELSE value

\* A parse that hands the number back as it is.
parseMonthPositiveIntUnchecked(value, fallback) == value

\* parseMonthPositiveInt(value, fallback) on integers.
parseMonthPositiveInt(value, fallback) ==
  IF value <= 0 THEN fallback ELSE Max(1, value)

\* AUTO_BACKUP_DEFAULTS when no AUTO_BACKUP_* environment variable is set.
AUTO_BACKUP_DEFAULTS(isWindows) ==
  [ enabled    |-> FALSE,
    frequency  |-> "daily",
    time       |-> <<2, 0>>,
    dayOfMonth |-> 1,
    keepMonths |-> 3,
    drive      |-> IF isWindows THEN "C:" ELSE "/",
    lastRunAt  |-> 0 ]

\* normalizeAutoBackupSettings(raw).  An absent field of raw is "" (strings),
\* <<>> (time) or 0 (numbers); lastRunAt is an index of Instants, 0 for ''.
normalizeAutoBackupSettings(raw, isWindows) ==
  LET defaults  == AUTO_BACKUP_DEFAULTS(isWindows)
      frequency == IF (IF raw.frequency = "" THEN defaults.frequency ELSE raw.frequency) = "monthly"
                   THEN "monthly" ELSE "daily"
  IN [ enabled    |-> raw.enabled,
       frequency  |-> frequency,
       time       |-> normalizeAutoBackupTime(IF raw.time = <<>> THEN defaults.time ELSE raw.time),
       dayOfMonth |-> IF frequency # "monthly" THEN 1
                      ELSE Min(31, Max(1, IF raw.dayOfMonth = 0 THEN defaults.dayOfMonth
                                          ELSE raw.dayOfMonth)),
       keepMonths |-> parseMonthPositiveInt(IF raw.keepMonths = 0 THEN defaults.keepMonths
                                            ELSE raw.keepMonths, 3),
       drive      |-> IF raw.drive = "" THEN defaults.drive ELSE raw.drive,
       lastRunAt  |-> raw.lastRunAt ]

\* A scheduled instant on the configured day of the month as it is.
scheduledInstantUnclamped(settings, nowDate) ==
  [nowDate EXCEPT !.date = IF settings.frequency = "monthly"
                           THEN Max(1, settings.dayOfMonth) ELSE nowDate.date,
                  !.hours = settings.time[1], !.minutes = settings.time[2]]

\* The instant `scheduled` of shouldRunAutoBackupNow.
scheduledInstant(settings, nowDate) ==
  LET lastDay == lastDayOfMonth(nowDate.year, nowDate.month)
      day     == IF settings.frequency = "monthly"
                 THEN Min(lastDay, Max(1, settings.dayOfMonth))
                 ELSE nowDate.date
  IN [nowDate EXCEPT !.date = day, !.hours = settings.time[1], !.minutes = settings.time[2]]

\* shouldRunAutoBackupNow(settings, now)
shouldRunAutoBackupNow(settings, nowDate) ==
  /\ settings.enabled
  /\ ~Earlier(nowDate, scheduledInstant(settings, nowDate))
  /\ \/ settings.lastRunAt = 0
     \/ IF settings.frequency = "monthly"
        THEN ~isSameMonth(Instants[settings.lastRunAt], nowDate)
        ELSE ~isSameDate(Instants[settings.lastRunAt], nowDate)

----------------------------------------------------------------------------
(* State *)

VARIABLES
  orders,         \* committed rows of table orders
  order_items,    \* committed rows of table order_items, in insertion order
  stock,          \* products.stock_quantity, committed
  cart,           \* committed rows of table cart
  orders_id_seq,  \* next value of the serial orders.id
  now,            \* index in Dates of the current calendar date
  pc,             \* per handler: the query it is about to run
  req,            \* per handler: the request it is serving (orderData / id, status)
  tx,             \* per handler: its open transaction (private writes, row locks)
  res,            \* per handler: status code of its last response (0: none yet)
  nreq,           \* requests accepted so far
  user_rows,      \* ids of the committed rows of table users
  backups,        \* rows of table backups
  backups_id_seq, \* next value of the serial backups.id
  disk,           \* the backup directory: file path -> lines of the file
  site_settings,  \* the auto_backup_* rows of table site_settings
  clock,          \* index in Instants of the current instant
  isAutoBackupRunning,  \* the scheduler's in-flight flag
  job,            \* per invocation of createBackupInternal / runJob: its locals
  liveRows,       \* history: per invocation, the rows of the critical tables
                  \* when its users count ran
  env,            \* process.platform and process.env.BACKUP_DIR
  restore         \* restoreDatabase: the upload and the counts read from it

\* The variables of the backup and restore controllers.
bvars == <<user_rows, backups, backups_id_seq, disk, site_settings, clock,
           isAutoBackupRunning, job, liveRows, env, restore>>

vars == <<orders, order_items, stock, cart, orders_id_seq, now, pc, req, tx, res, nreq,
          user_rows, backups, backups_id_seq, disk, site_settings, clock,
          isAutoBackupRunning, job, liveRows, env, restore>>

validStatuses == {"pending", "processing", "shipped", "delivered", "cancelled"}

\* A connection with no open transaction.
NoTx ==
  [ base        |-> <<>>,     \* orderBase
    orderNumber |-> <<>>,     \* result of generateOrderNumber
    attempt     |-> 0,        \* loop variable of the retry loop
    aborted     |-> FALSE,    \* a statement failed: every later statement fails
    error       |-> "",       \* error.code of the error that was thrown
    order       |-> <<>>,     \* inserted orders row (at most one)
    status      |-> <<>>,     \* updated status of the locked orders row
    items       |-> <<>>,     \* inserted order_items rows
    delta       |-> [p \in Products |-> 0],  \* pending change of stock_quantity
    plocks      |-> {},       \* products rows locked by UPDATE
    olock       |-> 0,        \* orders row locked by SELECT ... FOR UPDATE
    cartDeleted |-> {},       \* cart rows deleted
    wasCancelled |-> FALSE,
    rows        |-> <<>>,     \* itemsResult.rows
    i           |-> 1,        \* position of the for..of loop
    client      |-> FALSE,    \* the handler holds a client of db.pool
    releases    |-> 0 ]       \* history: calls of client.release()

NoReq == [kind |-> "none"]

\* Cart rows a user may have when the model starts.
CartRows == { [user_id |-> u, product_id |-> p] : u \in Users, p \in Products }

\* runJob instances of the scheduler's setInterval that may overlap.
Ticks == {"t1", "t2"}

\* Invocations of createBackupInternal: one admin request and the ticks.
Jobs == {"m"} \cup Ticks

\* req.user.id of the administrator who calls the admin routes.
adminUser == 3

\* users.id of the account User.ensureSuperAdmin keeps at startup.
superAdminUser == 4

\* An invocation that is not running.
NoJob ==
  [ pc             |-> "idle",
    result         |-> "",     \* how the last invocation ended: the error sent to the
                               \* administrator, "skipped" for a tick that found the flag set
    settings       |-> AUTO_BACKUP_DEFAULTS(FALSE),  \* runJob: settings
    driveLabel     |-> "",
    createdByUserId |-> NULL,
    filePath       |-> 0,      \* the instant the filename is stamped with
    usersTotal     |-> 0,
    usersRows      |-> 0,      \* usersRows.length
    ordersRows     |-> 0,      \* ordersRows.length
    orderItemsRows |-> 0,      \* orderItemsRows.length
    fileSizeBytes  |-> 0,
    error          |-> "",     \* pgError.message
    cutoff         |-> Instants[1],  \* applyBackupRetention: cutoff
    rows           |-> <<>>,   \* applyBackupRetention: result.rows still to visit
    now            |-> Instants[1],  \* shouldRunAutoBackupNow: now
    due            |-> FALSE ] \* shouldRunAutoBackupNow: the value returned

\* ADMIN_EMAIL and SUPER_ADMIN_EMAIL: the operator accounts.
Operators == {"admin", "super_admin"}

\* The public schema as restoreDatabase reads and writes it: the rows of the
\* critical tables, the operator accounts among the users, and whether the
\* migrations and the sequence synchronisation of the repair were applied.
EmptySchema == [rows |-> NoneLoaded, operators |-> {}, repaired |-> FALSE]

\* The schema of a running installation with no customers yet.
LiveSchema ==
  [ rows      |-> [t \in CriticalTables |-> IF t = "users" THEN 2 ELSE 0],
    operators |-> Operators,
    repaired  |-> TRUE ]

\* No response sent yet.  fields holds the keys of the verification object and
\* warning the warnings it joins (empty for null).
NoResponse ==
  [ status                       |-> 0,
    fields                       |-> {},
    usersCount                   |-> 0,
    ordersCount                  |-> 0,
    orderItemsCount              |-> 0,
    expectedUsersFromBackup      |-> NULL,
    expectedOrdersFromBackup     |-> NULL,
    expectedOrderItemsFromBackup |-> NULL,
    restoreMethod                |-> <<>>,
    skippedStatements            |-> 0,
    warning                      |-> <<>> ]

\* restoreDatabase before it has read the upload.
NoRestore ==
  [ pc                           |-> "idle",
    upload                       |-> FALSE,   \* req.file is set
    tmp                          |-> FALSE,   \* the upload is in the temporary directory
    file                         |-> <<>>,
    operators                    |-> {},      \* operator accounts among the users rows
                                              \* of the snapshot
    host                         |-> "normal", \* "sandbox": a constrained host, where psql
                                              \* may load fewer rows than a COPY block has
    expectedUsersFromBackup      |-> NULL,
    expectedOrdersFromBackup     |-> NULL,
    expectedOrderItemsFromBackup |-> NULL,
    ordersDataInSql              |-> FALSE,   \* ordersDataInSql.hasData
    orderItemsDataInSql          |-> FALSE,   \* orderItemsDataInSql.hasData
    db                           |-> LiveSchema,
    psqlError                    |-> [code |-> "", text |-> {}, class |-> ""],
    restoreMethod                |-> <<>>,    \* 'outer(inner)' is << "outer", "inner" >>
    skippedStatements            |-> 0,       \* fallbackStats?.skippedStatements || 0
    usersCount                   |-> 0,
    ordersCount                  |-> 0,
    orderItemsCount              |-> 0,
    hasUsersMismatch             |-> FALSE,
    hasOrdersMismatch            |-> FALSE,
    hasOrderItemsMismatch        |-> FALSE,
    steps                        |-> <<>>,    \* history: the resets, replays, repairs
                                              \* and counts that ran, in order
    recoveryAt                   |-> 0,       \* history: Len(steps) when the recovery
                                              \* pass began, 0 before
    response                     |-> NoResponse,
    sqlContent                   |-> <<>>,    \* argument of splitSqlStatements
    statements                   |-> <<>>,    \* its result
    fields                       |-> <<>>,    \* the values of a row pg_dump writes
    rowLine                      |-> <<>>,    \* its line in the COPY block
    inserts                      |-> <<>>,    \* transformPlainSqlDump's statements for it
    ids                          |-> {},      \* the id column of a restored table
    serial                       |-> FALSE,   \* pg_get_serial_sequence returns a sequence
    sequence                     |-> [last_value |-> 1, is_called |-> FALSE],
    synced                       |-> FALSE,   \* history: setval of the repair ran
    generated                    |-> 0,       \* the id of the next natural insert
    executedStatements           |-> 0,
    replayed                     |-> <<>> ]   \* history: what became of each statement
                                              \* the loop of restoreWithPgClient visited

NoRows == [users |-> 0, orders |-> 0, order_items |-> 0]

\* The backup subsystem at rest on a fresh installation.
BackupIdle ==
  /\ user_rows = Users \cup {adminUser}
  /\ backups = {}
  /\ backups_id_seq = 1
  /\ disk = <<>>
  /\ site_settings = AUTO_BACKUP_DEFAULTS(FALSE)
  /\ clock = 1
  /\ isAutoBackupRunning = FALSE
  /\ job = [j \in Jobs |-> NoJob]
  /\ liveRows = [j \in Jobs |-> NoRows]
  /\ env = [isWindows |-> FALSE, BACKUP_DIR |-> ""]
  /\ restore = NoRestore

Init ==
  /\ orders = {}
  /\ order_items = <<>>
  /\ stock = [p \in Products |-> InitStock]
  /\ cart \in { CartRows, { r \in CartRows : r.user_id = 1 } }
  /\ orders_id_seq = 1
  /\ now = 1
  /\ pc = [h \in Handlers |-> "idle"]
  /\ req = [h \in Handlers |-> NoReq]
  /\ tx = [h \in Handlers |-> NoTx]
  /\ res = [h \in Handlers |-> 0]
  /\ nreq = 0
  /\ BackupIdle

----------------------------------------------------------------------------
(* PostgreSQL *)

\* Another open transaction holds the row lock of product p.
ProductLocked(h, p) == \E g \in Handlers \ {h} : p \in tx[g].plocks

\* OrderLocked for a SELECT without FOR UPDATE: nothing to wait for.
OrderLockedNever(h, id) == FALSE

\* Another open transaction holds the row lock of order id.
OrderLocked(h, id) == \E g \in Handlers \ {h} : tx[g].olock = id

\* Another open transaction has inserted, and not yet committed or rolled
\* back, an orders row with this order_number: the unique index makes the
\* INSERT wait for that transaction to end.
InsertWaits(h, orderNumber) ==
  \E g \in Handlers \ {h} :
     /\ tx[g].order # <<>>
     /\ tx[g].order[1].order_number = orderNumber

\* UniqueViolation for a column without the unique index.
UniqueViolationNever(orderNumber) == FALSE

\* order_number VARCHAR(50) UNIQUE: the INSERT raises 23505.
UniqueViolation(orderNumber) == \E o \in orders : o.order_number = orderNumber

\* order_items.product_id REFERENCES products(id): NULL or an existing row.
ForeignKeyHolds(product_id) == product_id = NULL \/ product_id \in Products

\* COMMIT: the transaction's writes become the committed state.
CommittedOrders(t) ==
  { IF t.status # <<>> /\ o.id = t.olock THEN [o EXCEPT !.status = t.status[1]] ELSE o
      : o \in orders }
  \cup { t.order[k] : k \in 1..Len(t.order) }

CommittedStock(t) == [p \in Products |-> stock[p] + t.delta[p]]

----------------------------------------------------------------------------
(* Request bodies *)

\* An item as the storefront's checkout page sends it.
Item(p, q) ==
  [ product_id   |-> p,
    product_name |-> IF p \in Products THEN products[p].name ELSE "unlisted",
    quantity     |-> q,
    price        |-> IF p \in Products THEN products[p].price ELSE 10,
    subtotal     |-> q * (IF p \in Products THEN products[p].price ELSE 10) ]

RECURSIVE SumSubtotals(_)
SumSubtotals(items) ==
  IF Len(items) = 0 THEN 0
  ELSE items[Len(items)].subtotal + SumSubtotals(SubSeq(items, 1, Len(items) - 1))

\* Item lists of POST /orders bodies.
ItemLists ==
  { <<>>,
    << Item(1, 1) >>,
    << Item(1, MaxQty), Item(2, 1) >>,
    << Item(2, 1), Item(2, 1) >>,
    << Item(NULL, 1) >>,
    << Item(1, 1), Item(MissingProduct, 1) >>,
    << Item(2, 0 - 1) >> }

\* req.body of POST /orders: the client computes total_amount itself.
OrderBodies ==
  { [items |-> l, delivery_charge |-> 0, total_amount |-> SumSubtotals(l)] : l \in ItemLists }
  \cup
  { [items |-> << Item(1, 1) >>, delivery_charge |-> 10, total_amount |-> t] :
      t \in { SumSubtotals(<< Item(1, 1) >>) + 10, SumSubtotals(<< Item(1, 1) >>) } }

\* req.body.quantity of POST /orders/quick-buy.
QuickBuyQuantities == {0 - 1, 1, MaxQty, MaxQty + 1}

----------------------------------------------------------------------------
(* POST /orders and POST /orders/quick-buy: routes/orders.js *)

\* Order.create up to and including BEGIN: the connection is taken from the
\* pool, orderData is destructured and the base is built from new Date().
BeginCreate(h, orderData) ==
  /\ req' = [req EXCEPT ![h] = orderData]
  /\ tx' = [tx EXCEPT ![h] = [NoTx EXCEPT !.base = buildOrderNumberBase(Dates[now])]]
  /\ pc' = [pc EXCEPT ![h] = "generate"]
  /\ res' = [res EXCEPT ![h] = 0]

\* router.post('/')
PostOrder(h, body) ==
  /\ pc[h] = "idle"
  /\ nreq' = nreq + 1
  /\ BeginCreate(h, [ kind            |-> "create",
                      user_id         |-> principal[h],
                      total_amount    |-> body.total_amount,
                      delivery_charge |-> body.delivery_charge,
                      items           |-> body.items ])
  /\ UNCHANGED <<orders, order_items, stock, cart, orders_id_seq, now, bvars>>

\* The unit price quick-buy charges the caller.
QuickBuyPrice(u, product) ==
  LET retailPrice == IF product.discount_price # NULL THEN product.discount_price
                     ELSE product.price
      isWholesale == users[u].role = "wholesale" /\ users[u].is_approved
  IN IF isWholesale /\ product.wholesale_price # NULL /\ product.wholesale_price # 0
     THEN product.wholesale_price
     ELSE retailPrice

\* router.post('/quick-buy')
QuickBuy(h, product_id, quantity) ==
  /\ pc[h] = "idle"
  /\ nreq' = nreq + 1
  /\ UNCHANGED <<orders, order_items, stock, cart, orders_id_seq, now, bvars>>
  /\ IF product_id = NULL
     THEN /\ res' = [res EXCEPT ![h] = 400]
          /\ UNCHANGED <<pc, req, tx>>
     ELSE IF product_id \notin Products
     THEN /\ res' = [res EXCEPT ![h] = 404]
          /\ UNCHANGED <<pc, req, tx>>
     ELSE IF stock[product_id] < quantity
     THEN /\ res' = [res EXCEPT ![h] = 400]
          /\ UNCHANGED <<pc, req, tx>>
     ELSE LET price    == QuickBuyPrice(principal[h], products[product_id])
              subtotal == price * quantity
          IN BeginCreate(h, [ kind            |-> "create",
                              user_id         |-> principal[h],
                              total_amount    |-> subtotal,
                              delivery_charge |-> 0,
                              items           |-> << [ product_id   |-> product_id,
                                                       product_name |-> products[product_id].name,
                                                       quantity     |-> quantity,
                                                       price        |-> price,
                                                       subtotal     |-> subtotal ] >> ])

----------------------------------------------------------------------------
(* Order.create: models/Order.js *)

\* A statement fails with an error code: PostgreSQL aborts the transaction.
Failed(t, code) == [t EXCEPT !.aborted = TRUE, !.error = code]

\* The statement throws: control reaches the catch block of Order.create.
Throw(h, code) ==
  /\ tx' = [tx EXCEPT ![h] = Failed(@, code)]
  /\ pc' = [pc EXCEPT ![h] = "rollback"]

\* const orderNumber = await this.generateOrderNumber(client, orderBase)
GenerateOrderNumber(h) ==
  /\ pc[h] = "generate"
  /\ IF tx[h].aborted
     THEN \* current transaction is aborted, commands ignored until end of
          \* transaction block
          Throw(h, "25P02")
     ELSE /\ tx' = [tx EXCEPT ![h].orderNumber = generateOrderNumber(orders, tx[h].base)]
          /\ pc' = [pc EXCEPT ![h] = "insert"]
  /\ UNCHANGED <<orders, order_items, stock, cart, orders_id_seq, now, req, res, nreq, bvars>>

\* Where the for..of loop over items goes from position i.
NextItem(h, i) ==
  IF i <= Len(req[h].items) THEN "item" ELSE "cart"

\* INSERT INTO orders ... RETURNING *, inside the retry loop
InsertOrder(h) ==
  /\ pc[h] = "insert"
  /\ ~InsertWaits(h, tx[h].orderNumber)
  /\ orders_id_seq' = orders_id_seq + 1
  /\ IF UniqueViolation(tx[h].orderNumber)
     THEN \* insertError.code === '23505'
          IF tx[h].attempt = maxRetries - 1
          THEN Throw(h, "23505")
          ELSE /\ tx' = [tx EXCEPT ![h] = [Failed(@, "23505") EXCEPT !.attempt = @ + 1]]
               /\ pc' = [pc EXCEPT ![h] = "generate"]
     ELSE /\ tx' = [tx EXCEPT ![h].order =
                      << [ id              |-> orders_id_seq,
                           user_id         |-> req[h].user_id,
                           order_number    |-> tx[h].orderNumber,
                           total_amount    |-> req[h].total_amount,
                           delivery_charge |-> req[h].delivery_charge,
                           status          |-> "pending" ] >>]
          /\ pc' = [pc EXCEPT ![h] = NextItem(h, 1)]
  /\ UNCHANGED <<orders, order_items, stock, cart, now, req, res, nreq, bvars>>

\* INSERT INTO order_items ...
InsertItem(h) ==
  /\ pc[h] = "item"
  /\ LET item == req[h].items[tx[h].i]
     IN IF ForeignKeyHolds(item.product_id)
        THEN /\ tx' = [tx EXCEPT ![h].items =
                         Append(@, [ order_id     |-> tx[h].order[1].id,
                                     product_id   |-> item.product_id,
                                     product_name |-> item.product_name,
                                     quantity     |-> item.quantity,
                                     price        |-> item.price,
                                     subtotal     |-> item.subtotal ])]
             /\ pc' = [pc EXCEPT ![h] = "stock"]
        ELSE \* foreign key violation
             Throw(h, "23503")
  /\ UNCHANGED <<orders, order_items, stock, cart, orders_id_seq, now, req, res, nreq, bvars>>

\* UpdateStock that takes one unit per item whatever the quantity.
UpdateStockByOne(h) ==
  /\ pc[h] = "stock"
  /\ LET item == req[h].items[tx[h].i]
         p    == item.product_id
     IN /\ p \in Products => ~ProductLocked(h, p)
        /\ tx' = [tx EXCEPT ![h].delta = IF p \in Products
                                           THEN [@ EXCEPT ![p] = @ - 1]
                                           ELSE @,
                            ![h].plocks = IF p \in Products THEN @ \cup {p} ELSE @,
                            ![h].i = @ + 1]
        /\ pc' = [pc EXCEPT ![h] = NextItem(h, tx[h].i + 1)]
  /\ UNCHANGED <<orders, order_items, stock, cart, orders_id_seq, now, req, res, nreq, bvars>>

\* UPDATE products SET stock_quantity = stock_quantity - $1 WHERE id = $2
UpdateStock(h) ==
  /\ pc[h] = "stock"
  /\ LET item == req[h].items[tx[h].i]
         p    == item.product_id
     IN /\ p \in Products => ~ProductLocked(h, p)
        /\ tx' = [tx EXCEPT ![h].delta = IF p \in Products
                                           THEN [@ EXCEPT ![p] = @ - item.quantity]
                                           ELSE @,
                            ![h].plocks = IF p \in Products THEN @ \cup {p} ELSE @,
                            ![h].i = @ + 1]
        /\ pc' = [pc EXCEPT ![h] = NextItem(h, tx[h].i + 1)]
  /\ UNCHANGED <<orders, order_items, stock, cart, orders_id_seq, now, req, res, nreq, bvars>>

\* DELETE FROM cart WHERE user_id = $1
ClearCart(h) ==
  /\ pc[h] = "cart"
  /\ tx' = [tx EXCEPT ![h].cartDeleted = { r \in cart : r.user_id = req[h].user_id }]
  /\ pc' = [pc EXCEPT ![h] = "commit"]
  /\ UNCHANGED <<orders, order_items, stock, cart, orders_id_seq, now, req, res, nreq, bvars>>

\* COMMIT; return order  (the route answers 201)
CommitCreate(h) ==
  /\ pc[h] = "commit"
  /\ orders' = CommittedOrders(tx[h])
  /\ order_items' = order_items \o tx[h].items
  /\ stock' = CommittedStock(tx[h])
  /\ cart' = cart \ tx[h].cartDeleted
  /\ tx' = [tx EXCEPT ![h] = NoTx]
  /\ req' = [req EXCEPT ![h] = NoReq]
  /\ pc' = [pc EXCEPT ![h] = "idle"]
  /\ res' = [res EXCEPT ![h] = 201]
  /\ UNCHANGED <<orders_id_seq, now, nreq, bvars>>

\* Any query of Order.create fails for a reason of the server's own
\* (connection lost, deadlock victim, constraint of a column not modelled).
CreateQueryFails(h) ==
  /\ pc[h] \in {"generate", "insert", "item", "stock", "cart", "commit"}
  /\ Throw(h, "08006")
  /\ UNCHANGED <<orders, order_items, stock, cart, orders_id_seq, now, req, res, nreq, bvars>>

\* RollbackCreate with COMMIT sent in the catch block instead of ROLLBACK.
RollbackCreateCommits(h) ==
  /\ pc[h] = "rollback"
  /\ orders' = CommittedOrders(tx[h])
  /\ order_items' = order_items \o tx[h].items
  /\ stock' = CommittedStock(tx[h])
  /\ cart' = cart \ tx[h].cartDeleted
  /\ tx' = [tx EXCEPT ![h] = NoTx]
  /\ req' = [req EXCEPT ![h] = NoReq]
  /\ pc' = [pc EXCEPT ![h] = "idle"]
  /\ res' = [res EXCEPT ![h] = 500]
  /\ UNCHANGED <<orders_id_seq, now, nreq, bvars>>

\* catch (error) { ROLLBACK; throw error }  (the route answers 500)
RollbackCreate(h) ==
  /\ pc[h] = "rollback"
  /\ tx' = [tx EXCEPT ![h] = NoTx]
  /\ req' = [req EXCEPT ![h] = NoReq]
  /\ pc' = [pc EXCEPT ![h] = "idle"]
  /\ res' = [res EXCEPT ![h] = 500]
  /\ UNCHANGED <<orders, order_items, stock, cart, orders_id_seq, now, nreq, bvars>>

\* Midnight passes.
NextDay ==
  /\ now < Len(Dates)
  /\ now' = now + 1
  /\ UNCHANGED <<orders, order_items, stock, cart, orders_id_seq, pc, req, tx, res, nreq, bvars>>

----------------------------------------------------------------------------
(* PUT /admin/orders/:id/status: exports.updateOrderStatus *)

\* req.body.status
StatusInputs == validStatuses \cup {"archived"}

\* req.params.id: the orders of InitStatus and an id no order has.
OrderIds == {1, 2, 3}

\* UpdateOrderStatus without the validStatuses test.
UpdateOrderStatusUnvalidated(h, id, status) ==
  /\ pc[h] = "idle"
  /\ nreq' = nreq + 1
  /\ req' = [req EXCEPT ![h] = [kind |-> "status", id |-> id, status |-> status]]
  /\ tx' = [tx EXCEPT ![h] = NoTx]
  /\ pc' = [pc EXCEPT ![h] = "lock"]
  /\ res' = [res EXCEPT ![h] = 0]
  /\ UNCHANGED <<orders, order_items, stock, cart, orders_id_seq, now, bvars>>

\* Validation of the status, then BEGIN on a pooled connection.
UpdateOrderStatus(h, id, status) ==
  /\ pc[h] = "idle"
  /\ nreq' = nreq + 1
  /\ IF status \notin validStatuses
     THEN /\ res' = [res EXCEPT ![h] = 400]
          /\ UNCHANGED <<pc, req, tx>>
     ELSE /\ req' = [req EXCEPT ![h] = [kind |-> "status", id |-> id, status |-> status]]
          /\ tx' = [tx EXCEPT ![h] = NoTx]
          /\ pc' = [pc EXCEPT ![h] = "lock"]
          /\ res' = [res EXCEPT ![h] = 0]
  /\ UNCHANGED <<orders, order_items, stock, cart, orders_id_seq, now, bvars>>

\* The statement throws: control reaches the inner catch of updateOrderStatus.
ThrowStatus(h, code) ==
  /\ tx' = [tx EXCEPT ![h] = Failed(@, code)]
  /\ pc' = [pc EXCEPT ![h] = "rollbackStatus"]

\* SELECT id, status FROM orders WHERE id = $1 FOR UPDATE
LockOrder(h) ==
  /\ pc[h] = "lock"
  /\ ~OrderLocked(h, req[h].id)
  /\ LET existingOrderResult == { o \in orders : o.id = req[h].id }
     IN IF existingOrderResult = {}
        THEN \* ROLLBACK; 404
             /\ tx' = [tx EXCEPT ![h] = NoTx]
             /\ req' = [req EXCEPT ![h] = NoReq]
             /\ pc' = [pc EXCEPT ![h] = "idle"]
             /\ res' = [res EXCEPT ![h] = 404]
        ELSE LET existingOrder == CHOOSE o \in existingOrderResult : TRUE
             IN /\ tx' = [tx EXCEPT ![h].olock = req[h].id,
                                    ![h].wasCancelled = (existingOrder.status = "cancelled")]
                /\ pc' = [pc EXCEPT ![h] = "update"]
                /\ UNCHANGED <<req, res>>
  /\ UNCHANGED <<orders, order_items, stock, cart, orders_id_seq, now, nreq, bvars>>

\* UpdateStatusRow without the test of willBeCancelled: every update of an
\* order that is not cancelled restores.
UpdateStatusRowRestoresOnAny(h) ==
  /\ pc[h] = "update"
  /\ tx' = [tx EXCEPT ![h].status = << req[h].status >>]
  /\ pc' = [pc EXCEPT ![h] = IF ~tx[h].wasCancelled THEN "select" ELSE "commitStatus"]
  /\ UNCHANGED <<orders, order_items, stock, cart, orders_id_seq, now, req, res, nreq, bvars>>

\* UpdateStatusRow without the test of wasCancelled: every cancel restores.
UpdateStatusRowAlwaysRestores(h) ==
  /\ pc[h] = "update"
  /\ tx' = [tx EXCEPT ![h].status = << req[h].status >>]
  /\ pc' = [pc EXCEPT ![h] = IF req[h].status = "cancelled" THEN "select" ELSE "commitStatus"]
  /\ UNCHANGED <<orders, order_items, stock, cart, orders_id_seq, now, req, res, nreq, bvars>>

\* UPDATE orders SET status = $1, updated_at = CURRENT_TIMESTAMP WHERE id = $2
UpdateStatusRow(h) ==
  /\ pc[h] = "update"
  /\ tx' = [tx EXCEPT ![h].status = << req[h].status >>]
  /\ pc' = [pc EXCEPT ![h] =
              IF ~tx[h].wasCancelled /\ req[h].status = "cancelled"
              THEN "select" ELSE "commitStatus"]
  /\ UNCHANGED <<orders, order_items, stock, cart, orders_id_seq, now, req, res, nreq, bvars>>

\* Rows of a table held as a sequence that satisfy a predicate, in order.
RECURSIVE SelectItems(_, _)
SelectItems(rows, order_id) ==
  IF Len(rows) = 0 THEN <<>>
  ELSE LET r == rows[Len(rows)]
           before == SelectItems(SubSeq(rows, 1, Len(rows) - 1), order_id)
       IN IF r.order_id = order_id THEN Append(before, r) ELSE before

\* Where the for..of loop over itemsResult.rows goes from position i.
NextRestore(rows, i) ==
  IF i <= Len(rows) THEN "restore" ELSE "commitStatus"

\* SELECT product_id, quantity FROM order_items WHERE order_id = $1
SelectOrderItems(h) ==
  /\ pc[h] = "select"
  /\ LET rows == SelectItems(order_items, req[h].id)
     IN /\ tx' = [tx EXCEPT ![h].rows = rows, ![h].i = 1]
        /\ pc' = [pc EXCEPT ![h] = NextRestore(rows, 1)]
  /\ UNCHANGED <<orders, order_items, stock, cart, orders_id_seq, now, req, res, nreq, bvars>>

\* One round of the loop: skip the row, or
\* UPDATE products SET stock_quantity = stock_quantity + $1 WHERE id = $2
RestoreStock(h) ==
  /\ pc[h] = "restore"
  /\ LET item == tx[h].rows[tx[h].i]
         p    == item.product_id
         skip == p = NULL \/ p = 0 \/ item.quantity = 0
     IN /\ ~skip => ~ProductLocked(h, p)
        /\ tx' = [tx EXCEPT ![h].delta = IF skip THEN @
                                           ELSE [@ EXCEPT ![p] = @ + item.quantity],
                            ![h].plocks = IF skip THEN @ ELSE @ \cup {p},
                            ![h].i = @ + 1]
        /\ pc' = [pc EXCEPT ![h] = NextRestore(tx[h].rows, tx[h].i + 1)]
  /\ UNCHANGED <<orders, order_items, stock, cart, orders_id_seq, now, req, res, nreq, bvars>>

\* COMMIT; res.json(...)
CommitStatus(h) ==
  /\ pc[h] = "commitStatus"
  /\ orders' = CommittedOrders(tx[h])
  /\ stock' = CommittedStock(tx[h])
  /\ tx' = [tx EXCEPT ![h] = NoTx]
  /\ req' = [req EXCEPT ![h] = NoReq]
  /\ pc' = [pc EXCEPT ![h] = "idle"]
  /\ res' = [res EXCEPT ![h] = 200]
  /\ UNCHANGED <<order_items, cart, orders_id_seq, now, nreq, bvars>>

\* Any query of updateOrderStatus fails for a reason of the server's own.
StatusQueryFails(h) ==
  /\ pc[h] \in {"lock", "update", "select", "restore", "commitStatus"}
  /\ ThrowStatus(h, "08006")
  /\ UNCHANGED <<orders, order_items, stock, cart, orders_id_seq, now, req, res, nreq, bvars>>

\* catch (error) { ROLLBACK; throw error }, then the outer catch answers 500
RollbackStatus(h) ==
  /\ pc[h] = "rollbackStatus"
  /\ tx' = [tx EXCEPT ![h] = NoTx]
  /\ req' = [req EXCEPT ![h] = NoReq]
  /\ pc' = [pc EXCEPT ![h] = "idle"]
  /\ res' = [res EXCEPT ![h] = 500]
  /\ UNCHANGED <<orders, order_items, stock, cart, orders_id_seq, now, nreq, bvars>>

----------------------------------------------------------------------------
(* backupController.js: createBackupInternal *)

\* The variables of the order lifecycle, nreq excepted.
shopVars == <<orders, order_items, stock, cart, orders_id_seq, now, pc, req, tx, res>>

\* COUNT(*) of the committed rows of the critical tables.
LiveRows ==
  [ users       |-> Cardinality(user_rows),
    orders      |-> Cardinality(orders),
    order_items |-> Len(order_items) ]

\* The disk after a file was written / removed.
WriteFile(d, path, file) == [q \in DOMAIN d \cup {path} |-> IF q = path THEN file ELSE d[q]]

Unlink(d, path) == [q \in DOMAIN d \ {path} |-> d[q]]

\* createBackupInternal throws: exports.createBackup answers 500, runJob logs
\* the error and its finally block clears the flag.
ThrowBackup(j, message) ==
  /\ job' = [job EXCEPT ![j] = IF j \in Ticks THEN NoJob ELSE [NoJob EXCEPT !.result = message]]
  /\ isAutoBackupRunning' = IF j \in Ticks THEN FALSE ELSE isAutoBackupRunning

\* createBackupInternal returns its response: exports.createBackup sends it,
\* runJob goes on to save the last-run marker.
ReturnBackup(j) ==
  /\ job' = [job EXCEPT ![j] = IF j \in Ticks
                               THEN [@ EXCEPT !.pc = "save"]
                               ELSE [NoJob EXCEPT !.result = "ok"]]
  /\ UNCHANGED isAutoBackupRunning

\* createBackupInternal up to its first await, entered with the locals rec.
EnterBackup(j, rec, drive, createdByUserId) ==
  IF env.isWindows /\ drive = "" /\ env.BACKUP_DIR = ""
  THEN ThrowBackup(j, "Drive is required on Windows")
  ELSE /\ job' = [job EXCEPT ![j] =
                    [rec EXCEPT !.pc = "mkdir",
                                !.result = "",
                                !.driveLabel = IF drive # "" THEN drive
                                               ELSE IF env.isWindows THEN env.BACKUP_DIR ELSE "/",
                                !.createdByUserId = createdByUserId]]
       /\ UNCHANGED isAutoBackupRunning

\* POST /admin/backup: exports.createBackup
CreateBackup(j, drive) ==
  /\ j \notin Ticks
  /\ job[j].pc = "idle"
  /\ EnterBackup(j, NoJob, drive, adminUser)
  /\ nreq' = nreq + 1
  /\ UNCHANGED <<shopVars, user_rows, backups, backups_id_seq, disk, site_settings, clock,
                 liveRows, env, restore>>

\* await fs.mkdir(backupDir, { recursive: true }), then the filename is stamped.
MakeBackupDir(j) ==
  /\ job[j].pc = "mkdir"
  /\ \/ /\ job' = [job EXCEPT ![j].pc = "count", ![j].filePath = clock]
        /\ UNCHANGED isAutoBackupRunning
     \/ ThrowBackup(j, "Failed to create backup directory")
  /\ UNCHANGED <<shopVars, nreq, user_rows, backups, backups_id_seq, disk, site_settings,
                 clock, liveRows, env, restore>>

\* SELECT COUNT(*)::int AS users_total ... FROM users; a failure is only logged.
CountUsers(j) ==
  /\ job[j].pc = "count"
  /\ \E ok \in BOOLEAN :
       job' = [job EXCEPT ![j].pc = "dump",
                          ![j].usersTotal = IF ok THEN Cardinality(user_rows) ELSE 0]
  /\ liveRows' = [liveRows EXCEPT ![j] = LiveRows]
  /\ UNCHANGED <<shopVars, nreq, user_rows, backups, backups_id_seq, disk, site_settings,
                 clock, isAutoBackupRunning, env, restore>>

\* await execAsync(pgDumpCommand, ...)
PgDump(j) ==
  /\ job[j].pc = "dump"
  /\ \/ /\ disk' = WriteFile(disk, job[j].filePath, pgDump(LiveRows))
        /\ job' = [job EXCEPT ![j].pc = "users"]
     \/ /\ job' = [job EXCEPT ![j].pc = "failed", ![j].error = "pg_dump"]
        /\ UNCHANGED disk
  /\ UNCHANGED <<shopVars, nreq, user_rows, backups, backups_id_seq, site_settings, clock,
                 isAutoBackupRunning, liveRows, env, restore>>

\* One of the three SELECT * FROM <table> ORDER BY id ASC.
BackupSelect(j, at, field, n, next) ==
  /\ job[j].pc = at
  /\ \/ job' = [job EXCEPT ![j] = [@ EXCEPT !.pc = next, ![field] = n]]
     \/ job' = [job EXCEPT ![j].pc = "failed", ![j].error = "08006"]
  /\ UNCHANGED <<shopVars, nreq, user_rows, backups, backups_id_seq, disk, site_settings,
                 clock, isAutoBackupRunning, liveRows, env, restore>>

BackupSelectUsers(j) == BackupSelect(j, "users", "usersRows", LiveRows.users, "orders")

BackupSelectOrders(j) == BackupSelect(j, "orders", "ordersRows", LiveRows.orders, "order_items")

BackupSelectOrderItems(j) ==
  BackupSelect(j, "order_items", "orderItemsRows", LiveRows.order_items, "append")

\* The verification of the appended file: TRUE when no check throws.
Verified(j, file) ==
  /\ ~(job[j].usersRows < job[j].usersTotal)
  /\ ~(countTableRowsInSql(file, "orders") < job[j].ordersRows)
  /\ ~(countTableRowsInSql(file, "order_items") < job[j].orderItemsRows)

\* The three appendTableUpsertBlock calls, fs.stat and the verification: they
\* touch only the invocation's own file.  fs.stat fails when pg_dump's file is
\* gone and no block was appended.
AppendAndVerify(j) ==
  LET path     == job[j].filePath
      appended == job[j].usersRows + job[j].ordersRows + job[j].orderItemsRows
      dumped   == IF path \in DOMAIN disk THEN disk[path] ELSE <<>>
  IN /\ job[j].pc = "append"
     /\ IF path \in DOMAIN disk \/ appended > 0
        THEN \E file \in { appendTableUpsertBlock(
                              appendTableUpsertBlock(
                                appendTableUpsertBlock(dumped, "users", job[j].usersRows),
                                "orders", job[j].ordersRows),
                              "order_items", job[j].orderItemsRows) } :
               \E verified \in { Verified(j, file) } :
                 /\ disk' = WriteFile(disk, path, file)
                 /\ job' = [job EXCEPT ![j] =
                              IF verified
                              THEN [@ EXCEPT !.pc = "completed", !.fileSizeBytes = Len(file)]
                              ELSE [@ EXCEPT !.pc = "failed",
                                             !.error = "Backup verification failed"]]
        ELSE /\ job' = [job EXCEPT ![j].pc = "failed", ![j].error = "ENOENT"]
             /\ UNCHANGED disk
     /\ UNCHANGED <<shopVars, nreq, user_rows, backups, backups_id_seq, site_settings, clock,
                    isAutoBackupRunning, liveRows, env, restore>>

\* The row Backup.create inserts.
BackupRow(j, status, file_size, error_message) ==
  [ id            |-> backups_id_seq,
    file_path     |-> job[j].filePath,
    drive         |-> job[j].driveLabel,
    file_size     |-> file_size,
    created_by    |-> job[j].createdByUserId,
    status        |-> status,
    error_message |-> error_message,
    created_at    |-> clock ]

\* await Backup.create({ ..., status: 'completed' })
SaveCompletedRecord(j) ==
  /\ job[j].pc = "completed"
  /\ \/ /\ backups' = backups \cup {BackupRow(j, "completed", job[j].fileSizeBytes, "")}
        /\ backups_id_seq' = backups_id_seq + 1
        /\ ReturnBackup(j)
     \/ /\ job' = [job EXCEPT ![j].pc = "failed", ![j].error = "08006"]
        /\ UNCHANGED <<backups, backups_id_seq, isAutoBackupRunning>>
  /\ UNCHANGED <<shopVars, nreq, user_rows, disk, site_settings, clock, liveRows, env, restore>>

\* catch (pgError): await Backup.create({ ..., status: 'failed' }), then throw.
SaveFailedRecord(j) ==
  /\ job[j].pc = "failed"
  /\ \/ /\ backups' = backups \cup {BackupRow(j, "failed", 0, job[j].error)}
        /\ backups_id_seq' = backups_id_seq + 1
        /\ ThrowBackup(j, "Database backup failed")
     \/ /\ ThrowBackup(j, "08006")
        /\ UNCHANGED <<backups, backups_id_seq>>
  /\ UNCHANGED <<shopVars, nreq, user_rows, disk, site_settings, clock, liveRows, env, restore>>

\* The awaits of createBackupInternal.
BackupSteps(j) ==
  \/ MakeBackupDir(j)
  \/ CountUsers(j)
  \/ PgDump(j)
  \/ BackupSelectUsers(j)
  \/ BackupSelectOrders(j)
  \/ BackupSelectOrderItems(j)
  \/ AppendAndVerify(j)
  \/ SaveCompletedRecord(j)
  \/ SaveFailedRecord(j)

----------------------------------------------------------------------------
(* backupController.js: the scheduler, its settings and the retention *)

\* A return of runJob that leaves the flag as it is.
FinishJobKeepsFlag(t) ==
  /\ job' = [job EXCEPT ![t] = NoJob]
  /\ UNCHANGED isAutoBackupRunning

\* runJob returns through its finally block.
FinishJob(t) ==
  /\ job' = [job EXCEPT ![t] = NoJob]
  /\ isAutoBackupRunning' = FALSE

\* A tick of setInterval without the test of the flag.
RunJobUnguarded(t) ==
  /\ t \in Ticks
  /\ job[t].pc = "idle"
  /\ isAutoBackupRunning' = TRUE
  /\ job' = [job EXCEPT ![t] = [NoJob EXCEPT !.pc = "load"]]
  /\ UNCHANGED <<shopVars, nreq, user_rows, backups, backups_id_seq, disk, site_settings,
                 clock, liveRows, env, restore>>

\* A tick of setInterval: runJob up to its first await.
RunJob(t) ==
  /\ t \in Ticks
  /\ job[t].pc = "idle"
  /\ IF isAutoBackupRunning
     THEN /\ job' = [job EXCEPT ![t] = [NoJob EXCEPT !.result = "skipped"]]
          /\ UNCHANGED isAutoBackupRunning
     ELSE /\ isAutoBackupRunning' = TRUE
          /\ job' = [job EXCEPT ![t] = [NoJob EXCEPT !.pc = "load"]]
  /\ UNCHANGED <<shopVars, nreq, user_rows, backups, backups_id_seq, disk, site_settings,
                 clock, liveRows, env, restore>>

\* const settings = await loadAutoBackupSettings(), the test of
\* shouldRunAutoBackupNow and createBackupInternal up to its first await.
LoadSettings(t) ==
  /\ job[t].pc = "load"
  /\ \E loaded \in BOOLEAN :
       LET settings == IF loaded
                       THEN normalizeAutoBackupSettings(site_settings, env.isWindows)
                       ELSE normalizeAutoBackupSettings(AUTO_BACKUP_DEFAULTS(env.isWindows),
                                                        env.isWindows)
       IN IF ~shouldRunAutoBackupNow(settings, Instants[clock])
          THEN FinishJob(t)
          ELSE EnterBackup(t, [job[t] EXCEPT !.settings = settings], settings.drive, NULL)
  /\ UNCHANGED <<shopVars, nreq, user_rows, backups, backups_id_seq, disk, site_settings,
                 clock, liveRows, env, restore>>

\* await saveAutoBackupSettings({ ...settings, lastRunAt })
SaveLastRun(t) ==
  /\ job[t].pc = "save"
  /\ \/ /\ site_settings' =
             normalizeAutoBackupSettings([job[t].settings EXCEPT !.lastRunAt = clock],
                                         env.isWindows)
        /\ job' = [job EXCEPT ![t].pc = "retention"]
        /\ UNCHANGED isAutoBackupRunning
     \/ /\ ThrowBackup(t, "08006")
        /\ UNCHANGED site_settings
  /\ UNCHANGED <<shopVars, nreq, user_rows, backups, backups_id_seq, disk, clock, liveRows,
                 env, restore>>

\* ORDER BY created_at ASC of a set of backups rows (ties by id).
RECURSIVE orderByCreatedAt(_)
orderByCreatedAt(S) ==
  IF S = {} THEN <<>>
  ELSE LET first == CHOOSE b \in S :
                      \A c \in S : \/ b.created_at < c.created_at
                                   \/ b.created_at = c.created_at /\ b.id <= c.id
       IN << first >> \o orderByCreatedAt(S \ {first})

\* SELECT id, file_path FROM backups WHERE status = 'completed' AND
\* created_at < $1 ORDER BY created_at ASC
selectOldBackups(cutoff) ==
  orderByCreatedAt({ b \in backups : /\ b.status = "completed"
                                     /\ Earlier(Instants[b.created_at], cutoff) })

\* applyBackupRetention(settings.keepMonths) up to the result of its SELECT.
SelectOldBackups(t) ==
  LET safeKeepMonths == Max(1, job[t].settings.keepMonths)
      cutoff         == setMonthBack(Instants[clock], safeKeepMonths)
  IN /\ job[t].pc = "retention"
     /\ \/ /\ job' = [job EXCEPT ![t].pc = "remove",
                                 ![t].cutoff = cutoff,
                                 ![t].rows = selectOldBackups(cutoff)]
           /\ UNCHANGED isAutoBackupRunning
        \/ ThrowBackup(t, "08006")
     /\ UNCHANGED <<shopVars, nreq, user_rows, backups, backups_id_seq, disk, site_settings,
                    clock, liveRows, env, restore>>

\* One turn of the loop of applyBackupRetention (fs.unlink and
\* Backup.deleteById may each fail, which is only logged); after the last
\* turn runJob returns.
RemoveOldBackup(t) ==
  /\ job[t].pc = "remove"
  /\ IF job[t].rows = <<>>
     THEN /\ FinishJob(t)
          /\ UNCHANGED <<disk, backups>>
     ELSE LET row == Head(job[t].rows)
          IN /\ \E unlinked \in BOOLEAN :
                  disk' = IF unlinked THEN Unlink(disk, row.file_path) ELSE disk
             /\ \E deleted \in BOOLEAN :
                  backups' = IF deleted THEN { b \in backups : b.id # row.id } ELSE backups
             /\ job' = [job EXCEPT ![t].rows = Tail(@)]
             /\ UNCHANGED isAutoBackupRunning
  /\ UNCHANGED <<shopVars, nreq, user_rows, backups_id_seq, site_settings, clock, liveRows,
                 env, restore>>

\* The awaits of runJob.
JobSteps(t) ==
  \/ LoadSettings(t)
  \/ BackupSteps(t)
  \/ SaveLastRun(t)
  \/ SelectOldBackups(t)
  \/ RemoveOldBackup(t)

\* POST /admin/backup/auto-settings: exports.updateAutoBackupSettings
UpdateAutoBackupSettings(payload) ==
  /\ site_settings' =
       normalizeAutoBackupSettings(normalizeAutoBackupSettings(payload, env.isWindows),
                                   env.isWindows)
  /\ nreq' = nreq + 1
  /\ UNCHANGED <<shopVars, user_rows, backups, backups_id_seq, disk, clock,
                 isAutoBackupRunning, job, liveRows, env, restore>>

\* Time passes.
AdvanceClock ==
  /\ clock < Len(Instants)
  /\ clock' = clock + 1
  /\ UNCHANGED <<shopVars, nreq, user_rows, backups, backups_id_seq, disk, site_settings,
                 isAutoBackupRunning, job, liveRows, env, restore>>

----------------------------------------------------------------------------
(* The admin controller's deleteUser and restoreController.js *)

\* DELETE /admin/users/:userId: exports.deleteUser.  The foreign keys of
\* orders and backups are ON DELETE SET NULL, that of cart ON DELETE CASCADE.
DeleteUser(userId) ==
  /\ nreq' = nreq + 1
  /\ IF userId \notin user_rows \/ userId = adminUser
     THEN UNCHANGED <<user_rows, orders, cart, backups>>
     ELSE /\ user_rows' = user_rows \ {userId}
          /\ orders' = { IF o.user_id = userId THEN [o EXCEPT !.user_id = NULL] ELSE o :
                         o \in orders }
          /\ cart' = { r \in cart : r.user_id # userId }
          /\ backups' = { IF b.created_by = userId THEN [b EXCEPT !.created_by = NULL] ELSE b :
                          b \in backups }
  /\ UNCHANGED <<order_items, stock, orders_id_seq, now, pc, req, tx, res, backups_id_seq,
                 disk, site_settings, clock, isAutoBackupRunning, job, liveRows, env, restore>>

\* POST /restore: exports.restoreDatabase up to the expected counts.
InspectUpload ==
  /\ restore.pc = "idle"
  /\ restore.upload
  /\ restore' =
       [restore EXCEPT
          !.pc = "inspected",
          !.expectedUsersFromBackup = countUsersRowsInSql(restore.file),
          !.expectedOrdersFromBackup = restoreCountTableRowsInSql(restore.file, "orders"),
          !.expectedOrderItemsFromBackup =
             restoreCountTableRowsInSql(restore.file, "order_items")]
  /\ UNCHANGED <<shopVars, nreq, user_rows, backups, backups_id_seq, disk, site_settings,
                 clock, isAutoBackupRunning, job, liveRows, env>>

\* Everything but the restore.
exceptRestore ==
  <<shopVars, nreq, user_rows, backups, backups_id_seq, disk, site_settings, clock,
    isAutoBackupRunning, job, liveRows, env>>

\* catch (error): res.status(500).json({ error: 'Restore failed: ' + ... }), then
\* the finally block.
Caught(r) == [r EXCEPT !.pc = "unlink", !.response = [NoResponse EXCEPT !.status = 500]]

\* if (!req.file) return res.status(400).json({ error: 'No file uploaded' });
\* sqlFilePath is still undefined in the finally block.
RejectNoFile ==
  /\ restore.pc = "idle"
  /\ ~restore.upload
  /\ restore' = [restore EXCEPT !.pc = "done", !.response = [NoResponse EXCEPT !.status = 400]]
  /\ UNCHANGED exceptRestore

\* The two inspectTableDataInSql calls.
InspectTableData ==
  /\ restore.pc = "inspected"
  /\ restore' = [restore EXCEPT
                   !.pc = "reset",
                   !.ordersDataInSql = inspectTableDataInSql(restore.file, "orders"),
                   !.orderItemsDataInSql = inspectTableDataInSql(restore.file, "order_items")]
  /\ UNCHANGED exceptRestore

\* await db.query('DROP SCHEMA IF EXISTS public CASCADE; CREATE SCHEMA public;')
\* before psql, before a fallback to the in-process replay and before the
\* recovery; restoreMethod is assigned right after it.
ResetSchema ==
  /\ restore.pc \in {"reset", "fallback-reset", "recovery-reset"}
  /\ \/ restore' =
          [restore EXCEPT
             !.db = EmptySchema,
             !.steps = Append(@, "reset"),
             !.pc = IF restore.pc = "reset" THEN "psql"
                    ELSE IF restore.pc = "fallback-reset" THEN "fallback" ELSE "recovery",
             !.restoreMethod =
                IF restore.pc = "reset" THEN << "psql" >>
                ELSE IF restore.pc = "recovery-reset" THEN @
                ELSE IF isPsqlMissingError(restore.psqlError) THEN << "pg-fallback(no-psql)" >>
                ELSE << "pg-fallback(psql-failed)" >>]
     \/ restore' = Caught(restore)
  /\ UNCHANGED exceptRestore

\* What psql may leave of the n rows of a table on a constrained host.
Short(n) == {0, Max(n - 1, 0), n}

\* What psql may leave of the rows of a snapshot: all of them, and on a
\* constrained host also fewer.
Loadable(rows) ==
  IF restore.host = "sandbox"
  THEN { [users |-> u, orders |-> o, order_items |-> i] :
           u \in Short(rows.users), o \in Short(rows.orders), i \in Short(rows.order_items) }
  ELSE { rows }

\* The operator accounts among the users rows that were loaded.
LoadedOperators(loaded, rows) ==
  IF loaded.users = rows.users THEN { restore.operators }
  ELSE { S \in SUBSET restore.operators : Cardinality(S) <= loaded.users }

\* await execAsync(restoreCmd) with ON_ERROR_STOP=1 and the catch (psqlError)
\* that picks the next replay.
ExecPsql ==
  /\ restore.pc = "psql"
  /\ \/ \E full \in { loadedRows(restore.file) } :
        \E loaded \in Loadable(full) : \E ops \in LoadedOperators(loaded, full) :
          restore' = [restore EXCEPT
                        !.db = [rows |-> loaded, operators |-> ops, repaired |-> FALSE],
                        !.steps = Append(@, "psql"),
                        !.pc = "repair"]
     \/ \E error \in PsqlErrors :
          restore' = [restore EXCEPT
                        !.psqlError = error,
                        !.steps = Append(@, "psql"),
                        !.pc = IF isPsqlMissingError(error) THEN "fallback-reset"
                               ELSE IF isNonCriticalPsqlPermissionError(error) THEN "tolerant"
                               ELSE "fallback-reset"]
  /\ UNCHANGED exceptRestore

\* await execAsync(tolerantCmd) with ON_ERROR_STOP=0: the statements that
\* failed are passed over; a COPY block is loaded as a whole or not at all.
ExecPsqlTolerant ==
  /\ restore.pc = "tolerant"
  /\ \/ \E full \in { loadedRows(restore.file) } :
        \E loaded \in Loadable(full) : \E ops \in LoadedOperators(loaded, full) :
          restore' = [restore EXCEPT
                        !.db = [rows |-> loaded, operators |-> ops, repaired |-> FALSE],
                        !.steps = Append(@, "psql-tolerant"),
                        !.restoreMethod = << "psql-tolerant" >>,
                        !.pc = "repair"]
     \/ restore' = [Caught(restore) EXCEPT !.steps = Append(@, "psql-tolerant")]
  /\ UNCHANGED exceptRestore

\* fallbackStats = await restoreWithPgClient(sqlFilePath), in the fallback
\* and in the recovery.
RestoreWithPgClient ==
  /\ restore.pc \in {"fallback", "recovery"}
  /\ \E replay \in { restoreWithPgClient(restore.file) } :
       \E ops \in LoadedOperators(replay.rows, loadedRows(restore.file)) :
          restore' =
            IF replay.thrown
            THEN [Caught(restore) EXCEPT
                    !.db = [rows |-> replay.rows, operators |-> ops, repaired |-> FALSE],
                    !.steps = Append(@, "pg")]
            ELSE [restore EXCEPT
                    !.db = [rows |-> replay.rows, operators |-> ops, repaired |-> FALSE],
                    !.steps = Append(@, "pg"),
                    !.pc = IF restore.pc = "fallback" THEN "repair" ELSE "recovery-repair"]
  /\ UNCHANGED exceptRestore

\* A repair after which restoreMethod stays as the first pass left it.
RunPostRestoreRepairUnwrapped ==
  /\ restore.pc \in {"repair", "recovery-repair"}
  /\ restore' =
       [restore EXCEPT
          !.db = [rows |-> [@.rows EXCEPT !["users"] =
                              @ + Cardinality(Operators \ restore.db.operators)],
                  operators |-> Operators,
                  repaired |-> TRUE],
          !.steps = Append(@, "repair"),
          !.pc = IF restore.pc = "repair" THEN "count" ELSE "recovery-count"]
  /\ UNCHANGED exceptRestore

\* await runPostRestoreRepair(): initializeDatabase, User.ensureAdmin,
\* User.ensureSuperAdmin and the syncTableSequence loop.  After the recovery
\* restoreMethod is wrapped.
RunPostRestoreRepair ==
  /\ restore.pc \in {"repair", "recovery-repair"}
  /\ \/ restore' =
          [restore EXCEPT
             !.db = [rows |-> [@.rows EXCEPT !["users"] =
                                 @ + Cardinality(Operators \ restore.db.operators)],
                     operators |-> Operators,
                     repaired |-> TRUE],
             !.steps = Append(@, "repair"),
             !.restoreMethod = IF restore.pc = "recovery-repair"
                               THEN << "pg-fallback-recovery" >> \o @ ELSE @,
             !.pc = IF restore.pc = "repair" THEN "count" ELSE "recovery-count"]
     \/ restore' = Caught(restore)
  /\ UNCHANGED exceptRestore

\* The three SELECT COUNT(*) of the verification, of which the first n
\* succeed (a failure is only logged), and after the first verification the
\* mismatch flags and the decision to recover.
CountRows ==
  /\ restore.pc \in {"count", "recovery-count"}
  /\ \E n \in 0..3 :
       LET usersCount == IF n >= 1 THEN restore.db.rows.users ELSE restore.usersCount
           ordersCount == IF n >= 2 THEN restore.db.rows.orders ELSE restore.ordersCount
           orderItemsCount ==
             IF n >= 3 THEN restore.db.rows.order_items ELSE restore.orderItemsCount
           missingCriticalOrderData ==
             \/ restore.ordersDataInSql /\ ordersCount = 0
             \/ restore.orderItemsDataInSql /\ orderItemsCount = 0
           counted == [restore EXCEPT !.usersCount = usersCount,
                                      !.ordersCount = ordersCount,
                                      !.orderItemsCount = orderItemsCount,
                                      !.steps = Append(@, "count")]
       IN restore' =
            IF restore.pc = "recovery-count"
            THEN [counted EXCEPT !.pc = "respond"]
            ELSE [counted EXCEPT
                    !.hasUsersMismatch =
                       restore.expectedUsersFromBackup # NULL
                         /\ usersCount < restore.expectedUsersFromBackup,
                    !.hasOrdersMismatch =
                       restore.expectedOrdersFromBackup # NULL
                         /\ ordersCount < restore.expectedOrdersFromBackup,
                    !.hasOrderItemsMismatch =
                       restore.expectedOrderItemsFromBackup # NULL
                         /\ orderItemsCount < restore.expectedOrderItemsFromBackup,
                    !.recoveryAt =
                       IF missingCriticalOrderData
                            /\ restore.restoreMethod[1] # "pg-fallback-recovery"
                       THEN Len(counted.steps) ELSE @,
                    !.pc =
                       IF missingCriticalOrderData
                            /\ restore.restoreMethod[1] # "pg-fallback-recovery"
                       THEN "recovery-reset" ELSE "respond"]
  /\ UNCHANGED exceptRestore

\* The warnings array of restoreDatabase.
Warnings(r) ==
  (IF r.hasUsersMismatch THEN << "users" >> ELSE <<>>)
    \o (IF r.hasOrdersMismatch THEN << "orders" >> ELSE <<>>)
    \o (IF r.hasOrderItemsMismatch THEN << "order_items" >> ELSE <<>>)
    \o (IF r.ordersDataInSql /\ r.ordersCount = 0 THEN << "orders payload" >> ELSE <<>>)
    \o (IF r.orderItemsDataInSql /\ r.orderItemsCount = 0
        THEN << "order_items payload" >> ELSE <<>>)

\* The two res.json of restoreDatabase.
Respond ==
  /\ restore.pc = "respond"
  /\ restore' =
       [restore EXCEPT
          !.pc = "unlink",
          !.response =
             IF restore.expectedUsersFromBackup # NULL /\ restore.expectedUsersFromBackup <= 1
             THEN [NoResponse EXCEPT
                     !.status = 200,
                     !.fields = {"usersCount", "expectedUsersFromBackup", "warning"},
                     !.usersCount = restore.usersCount,
                     !.expectedUsersFromBackup = restore.expectedUsersFromBackup,
                     !.warning = << "no non-admin users" >>]
             ELSE [ status                       |-> 200,
                    fields                       |->
                      {"usersCount", "ordersCount", "orderItemsCount",
                       "expectedUsersFromBackup", "expectedOrdersFromBackup",
                       "expectedOrderItemsFromBackup", "restoreMethod", "skippedStatements",
                       "warning"},
                    usersCount                   |-> restore.usersCount,
                    ordersCount                  |-> restore.ordersCount,
                    orderItemsCount              |-> restore.orderItemsCount,
                    expectedUsersFromBackup      |-> restore.expectedUsersFromBackup,
                    expectedOrdersFromBackup     |-> restore.expectedOrdersFromBackup,
                    expectedOrderItemsFromBackup |-> restore.expectedOrderItemsFromBackup,
                    restoreMethod                |-> restore.restoreMethod,
                    skippedStatements            |-> restore.skippedStatements,
                    warning                      |-> Warnings(restore) ]]
  /\ UNCHANGED exceptRestore

\* A finally block that removes the upload only after a success.
UnlinkUploadOnSuccess ==
  /\ restore.pc = "unlink"
  /\ restore' = [restore EXCEPT !.pc = "done", !.tmp = restore.response.status # 200]
  /\ UNCHANGED exceptRestore

\* finally: if (sqlFilePath) fs.unlink(sqlFilePath, () => {}), which runs
\* after the response was sent.
UnlinkUpload ==
  /\ restore.pc = "unlink"
  /\ restore' = [restore EXCEPT !.pc = "done", !.tmp = FALSE]
  /\ UNCHANGED exceptRestore

\* The awaits of restoreDatabase.
RestoreSteps ==
  \/ RejectNoFile
  \/ InspectUpload
  \/ InspectTableData
  \/ ResetSchema
  \/ ExecPsql
  \/ ExecPsqlTolerant
  \/ RestoreWithPgClient
  \/ RunPostRestoreRepair
  \/ CountRows
  \/ Respond
  \/ UnlinkUpload

----------------------------------------------------------------------------
(* The system *)

CreateSteps(h) ==
  \/ GenerateOrderNumber(h)
  \/ InsertOrder(h)
  \/ InsertItem(h)
  \/ UpdateStock(h)
  \/ ClearCart(h)
  \/ CommitCreate(h)
  \/ CreateQueryFails(h)
  \/ RollbackCreate(h)

StatusSteps(h) ==
  \/ LockOrder(h)
  \/ UpdateStatusRow(h)
  \/ SelectOrderItems(h)
  \/ RestoreStock(h)
  \/ CommitStatus(h)
  \/ StatusQueryFails(h)
  \/ RollbackStatus(h)

\* A store in which two orders were placed on the first day.
InitStatus ==
  LET base   == buildOrderNumberBase(Dates[1])
      items1 == << Item(1, MaxQty), Item(2, 1) >>
      items2 == << Item(2, 1), Item(NULL, 1), Item(1, 0) >>
      row(id, item) == [ order_id     |-> id,
                         product_id   |-> item.product_id,
                         product_name |-> item.product_name,
                         quantity     |-> item.quantity,
                         price        |-> item.price,
                         subtotal     |-> item.subtotal ]
  IN /\ \E s1 \in validStatuses, s2 \in validStatuses :
          orders = { [ id |-> 1, user_id |-> 1, order_number |-> base,
                       total_amount |-> SumSubtotals(items1), delivery_charge |-> 0,
                       status |-> s1 ],
                     [ id |-> 2, user_id |-> 2,
                       order_number |-> generateOrderNumber({[order_number |-> base]}, base),
                       total_amount |-> SumSubtotals(items2), delivery_charge |-> 0,
                       status |-> s2 ] }
     /\ order_items = [k \in 1..2 |-> row(1, items1[k])] \o [k \in 1..3 |-> row(2, items2[k])]
     /\ stock = [p \in Products |-> InitStock]
     /\ cart = {}
     /\ orders_id_seq = 3
     /\ now = 1
     /\ pc = [h \in Handlers |-> "idle"]
     /\ req = [h \in Handlers |-> NoReq]
     /\ tx = [h \in Handlers |-> NoTx]
     /\ res = [h \in Handlers |-> 0]
     /\ nreq = 0
     /\ BackupIdle

\* The body of an order for one unit of product 1.
NumberBodies ==
  { [items |-> << Item(1, 1) >>, delivery_charge |-> 0,
     total_amount |-> SumSubtotals(<< Item(1, 1) >>)] }

\* Order placement over two days: the allocation of order numbers.
NextNumber ==
  \/ \E h \in Handlers, body \in NumberBodies :
       nreq < MaxAllocations /\ PostOrder(h, body)
  \/ \E h \in Handlers : CreateSteps(h)
  \/ NextDay

SpecNumber == Init /\ [][NextNumber]_vars

\* Order placement through both routes, with every kind of body.
NextCreate ==
  \/ \E h \in Handlers, body \in OrderBodies :
       nreq < MaxCreates /\ PostOrder(h, body)
  \/ \E h \in Handlers, p \in Products \cup {MissingProduct, NULL}, q \in QuickBuyQuantities :
       nreq < MaxCreates /\ QuickBuy(h, p, q)
  \/ \E h \in Handlers : CreateSteps(h)

SpecCreate == Init /\ [][NextCreate]_vars

\* Status updates by administrators on a store that holds orders.
NextStatus ==
  \/ \E h \in Handlers, id \in OrderIds, s \in StatusInputs :
       nreq < MaxUpdates /\ UpdateOrderStatus(h, id, s)
  \/ \E h \in Handlers : StatusSteps(h)

SpecStatus == InitStatus /\ [][NextStatus]_vars

\* Every request of the order lifecycle, on an empty store.
Next ==
  \/ \E h \in Handlers, body \in OrderBodies :
       nreq < MaxCreates /\ PostOrder(h, body)
  \/ \E h \in Handlers, p \in Products \cup {MissingProduct, NULL}, q \in QuickBuyQuantities :
       nreq < MaxCreates /\ QuickBuy(h, p, q)
  \/ \E h \in Handlers, id \in OrderIds, s \in StatusInputs :
       nreq < MaxCreates /\ UpdateOrderStatus(h, id, s)
  \/ \E h \in Handlers : CreateSteps(h) \/ StatusSteps(h)
  \/ NextDay

Spec == Init /\ [][Next]_vars

\* Status updates that all ask for 'cancelled', on orders none of which is
\* cancelled yet.
InitCancel ==
  /\ InitStatus
  /\ \A o \in orders : o.status # "cancelled"

NextCancel ==
  \/ \E h \in Handlers, id \in OrderIds :
       nreq < MaxUpdates /\ UpdateOrderStatus(h, id, "cancelled")
  \/ \E h \in Handlers : StatusSteps(h)

SpecCancel == InitCancel /\ [][NextCancel]_vars

----------------------------------------------------------------------------
(* The backup and restore controllers as systems *)

\* The order lifecycle at rest on an empty store.
ShopIdle ==
  /\ orders = {}
  /\ order_items = <<>>
  /\ stock = [p \in Products |-> InitStock]
  /\ cart = CartRows
  /\ orders_id_seq = 1
  /\ now = 1
  /\ pc = [h \in Handlers |-> "idle"]
  /\ req = [h \in Handlers |-> NoReq]
  /\ tx = [h \in Handlers |-> NoTx]
  /\ res = [h \in Handlers |-> 0]
  /\ nreq = 0

\* A fresh installation on Linux or on Windows, BACKUP_DIR not set.
InitBackup ==
  /\ ShopIdle
  /\ user_rows = Users \cup {adminUser}
  /\ backups = {}
  /\ backups_id_seq = 1
  /\ disk = <<>>
  /\ site_settings = AUTO_BACKUP_DEFAULTS(FALSE)
  /\ clock = 1
  /\ isAutoBackupRunning = FALSE
  /\ job = [j \in Jobs |-> NoJob]
  /\ liveRows = [j \in Jobs |-> NoRows]
  /\ env \in { [isWindows |-> w, BACKUP_DIR |-> ""] : w \in BOOLEAN }
  /\ restore = NoRestore

\* req.body.drive of POST /admin/backup/create.
BackupDrives == {"", "D:"}

\* Manual backups while a customer places an order and the administrator
\* deletes users.
NextBackup ==
  \/ \E drive \in BackupDrives :
       nreq < MaxRequests /\ CreateBackup("m", drive)
  \/ BackupSteps("m")
  \/ \E userId \in {2, adminUser} :
       nreq < MaxRequests /\ DeleteUser(userId)
  \/ \E body \in NumberBodies :
       nreq < MaxRequests /\ PostOrder("h1", body)
  \/ \E h \in Handlers : CreateSteps(h)

SpecBackup == InitBackup /\ [][NextBackup]_vars

\* An installation whose administrator has enabled the daily backup.
InitScheduler ==
  /\ ShopIdle
  /\ user_rows = Users \cup {adminUser}
  /\ backups = {}
  /\ backups_id_seq = 1
  /\ disk = <<>>
  /\ site_settings = [AUTO_BACKUP_DEFAULTS(FALSE) EXCEPT !.enabled = TRUE, !.keepMonths = 1]
  /\ clock = 1
  /\ isAutoBackupRunning = FALSE
  /\ job = [j \in Jobs |-> NoJob]
  /\ liveRows = [j \in Jobs |-> NoRows]
  /\ env = [isWindows |-> FALSE, BACKUP_DIR |-> ""]
  /\ restore = NoRestore

\* req.body of POST /admin/backup/auto-settings: the form either echoes the
\* lastRunAt it was loaded with or leaves it out.
SettingsPayloads ==
  { [ enabled    |-> e,
      frequency  |-> f,
      time       |-> <<>>,
      dayOfMonth |-> 0,
      keepMonths |-> 1,
      drive      |-> "",
      lastRunAt  |-> l ] :
    e \in BOOLEAN, f \in {"", "monthly"}, l \in {0, site_settings.lastRunAt} }

\* Overlapping ticks of the scheduler while time passes.
NextScheduler ==
  \/ \E t \in Ticks :
       backups_id_seq <= MaxBackups /\ RunJob(t)
  \/ \E t \in Ticks : JobSteps(t)
  \/ AdvanceClock

SpecScheduler == InitScheduler /\ [][NextScheduler]_vars

\* The scheduler when every await of a job is answered in the end.
SpecSchedulerFair ==
  InitScheduler /\ [][NextScheduler]_vars /\ \A t \in Ticks : WF_vars(JobSteps(t))

\* The scheduler's ticks one after the other, the administrator's settings
\* and the clock.
NextAutoBackup ==
  \/ backups_id_seq <= MaxBackups + 1 /\ RunJob("t1")
  \/ JobSteps("t1")
  \/ \E payload \in SettingsPayloads :
       nreq < MaxSettingsUpdates /\ UpdateAutoBackupSettings(payload)
  \/ AdvanceClock

SpecAutoBackup == InitScheduler /\ [][NextAutoBackup]_vars

\* Lines an uploaded .sql file is made of.
UploadLines ==
  { CopyLine(t) : t \in CriticalTables } \cup { MarkerLine(t, 2) : t \in CriticalTables }
    \cup { RowLine, EndLine, BlankLine }

RECURSIVE FilesOfLength(_)
FilesOfLength(n) ==
  IF n = 0 THEN { <<>> }
  ELSE { Append(f, l) : f \in FilesOfLength(n - 1), l \in UploadLines }

\* The file createBackupInternal leaves for a store of the given row counts.
BackupFileOf(rows) ==
  appendTableUpsertBlock(
    appendTableUpsertBlock(
      appendTableUpsertBlock(pgDump(rows), "users", rows.users),
      "orders", rows.orders),
    "order_items", rows.order_items)

\* Uploads: every short file, and the files of backups of small stores.
UploadFiles ==
  UNION { FilesOfLength(n) : n \in 0..MaxLines }
    \cup { BackupFileOf([users |-> u, orders |-> o, order_items |-> i]) :
           u \in 1..2, o \in 0..1, i \in 0..1 }

InitRestore ==
  /\ ShopIdle
  /\ user_rows = Users \cup {adminUser}
  /\ backups = {}
  /\ backups_id_seq = 1
  /\ disk = <<>>
  /\ site_settings = AUTO_BACKUP_DEFAULTS(FALSE)
  /\ clock = 1
  /\ isAutoBackupRunning = FALSE
  /\ job = [j \in Jobs |-> NoJob]
  /\ liveRows = [j \in Jobs |-> NoRows]
  /\ env = [isWindows |-> FALSE, BACKUP_DIR |-> ""]
  /\ restore \in { [NoRestore EXCEPT !.upload = TRUE, !.tmp = TRUE, !.file = f] :
                    f \in UploadFiles }

NextInspect == InspectUpload

SpecRestore == InitRestore /\ [][NextInspect]_vars

\* A dump made with --no-comments: the COPY blocks alone.
DataFileOf(rows) ==
  CopyBlock("users", rows.users) \o CopyBlock("orders", rows.orders)
    \o CopyBlock("order_items", rows.order_items)

\* A script of n INSERT statements into orders.
InsertFileOf(n) == [k \in 1..n |-> InsertLine("orders")]

\* The row counts of small stores.
SmallStores ==
  { [users |-> u, orders |-> o, order_items |-> i] :
      u \in 1..MaxRows, o \in 0..MaxRows, i \in 0..MaxRows }

\* Uploads of POST /api/restore: backups of small stores made by
\* createBackupInternal, dumps without comments, and INSERT scripts.
RestoreUploads ==
  { BackupFileOf(rows) : rows \in SmallStores }
    \cup { DataFileOf(rows) : rows \in SmallStores }
    \cup { InsertFileOf(n) : n \in 1..MaxRows }

\* POST /api/restore without a file, or with one of the uploads on either
\* kind of host.
RestoreRequests ==
  { NoRestore }
    \cup { [NoRestore EXCEPT !.upload = TRUE, !.tmp = TRUE, !.file = f,
                             !.operators = ops, !.host = h] :
             f \in RestoreUploads, ops \in SUBSET Operators, h \in {"normal", "sandbox"} }

InitRestoreRun ==
  /\ ShopIdle
  /\ user_rows = Users \cup {adminUser}
  /\ backups = {}
  /\ backups_id_seq = 1
  /\ disk = <<>>
  /\ site_settings = AUTO_BACKUP_DEFAULTS(FALSE)
  /\ clock = 1
  /\ isAutoBackupRunning = FALSE
  /\ job = [j \in Jobs |-> NoJob]
  /\ liveRows = [j \in Jobs |-> NoRows]
  /\ env = [isWindows |-> FALSE, BACKUP_DIR |-> ""]
  /\ restore \in { r \in RestoreRequests :
                     Cardinality(r.operators) <= loadedRows(r.file).users }

NextRestoreRun == RestoreSteps

SpecRestoreRun == InitRestoreRun /\ [][NextRestoreRun]_vars

\* The stores with the fewest and with the most rows in each critical table.
EdgeStores ==
  { [users |-> u, orders |-> o, order_items |-> i] :
      u \in {1, MaxRows}, o \in {0, MaxRows}, i \in {0, MaxRows} }

\* The uploads made from them, and the longest INSERT script.
EdgeUploads ==
  { BackupFileOf(rows) : rows \in EdgeStores }
    \cup { DataFileOf(rows) : rows \in EdgeStores }
    \cup { InsertFileOf(MaxRows) }

InitRestoreRunFair ==
  /\ InitRestoreRun
  /\ restore.upload => restore.file \in EdgeUploads

\* Every await of restoreDatabase returns or throws, and fs.unlink completes.
SpecRestoreRunFair ==
  InitRestoreRunFair /\ [][NextRestoreRun]_vars /\ WF_vars(NextRestoreRun)

\* The rows of table users of the operator accounts.
OperatorUser(o) == IF o = "admin" THEN adminUser ELSE superAdminUser

\* An installation after startup, with or without customers.
InitRoundTrip ==
  /\ ShopIdle
  /\ user_rows \in { {adminUser, superAdminUser}, Users \cup {adminUser, superAdminUser} }
  /\ backups = {}
  /\ backups_id_seq = 1
  /\ disk = <<>>
  /\ site_settings = AUTO_BACKUP_DEFAULTS(FALSE)
  /\ clock = 1
  /\ isAutoBackupRunning = FALSE
  /\ job = [j \in Jobs |-> NoJob]
  /\ liveRows = [j \in Jobs |-> NoRows]
  /\ env = [isWindows |-> FALSE, BACKUP_DIR |-> ""]
  /\ restore = NoRestore

\* The administrator posts the file of a completed backup to /api/restore.
UploadBackup ==
  /\ restore.pc = "idle"
  /\ ~restore.upload
  /\ job["m"].pc = "idle"
  /\ \E b \in backups :
       /\ b.status = "completed"
       /\ b.file_path \in DOMAIN disk
       /\ restore' = [NoRestore EXCEPT
                        !.upload = TRUE,
                        !.tmp = TRUE,
                        !.file = disk[b.file_path],
                        !.operators = { o \in Operators : OperatorUser(o) \in user_rows }]
  /\ UNCHANGED exceptRestore

\* Orders are placed, then a backup is made of the store at rest, then its
\* file is restored.
NextRoundTrip ==
  \/ \E body \in NumberBodies :
       /\ nreq < MaxRequests
       /\ job["m"].pc = "idle" /\ backups = {} /\ ~restore.upload
       /\ PostOrder("h1", body)
  \/ CreateSteps("h1")
  \/ /\ nreq < MaxRequests
     /\ pc["h1"] = "idle" /\ ~restore.upload
     /\ CreateBackup("m", "")
  \/ BackupSteps("m")
  \/ UploadBackup
  \/ InspectUpload
  \/ InspectTableData
  \/ ResetSchema
  \/ ExecPsql
  \/ ExecPsqlTolerant
  \/ RestoreWithPgClient
  \/ RunPostRestoreRepair
  \/ CountRows
  \/ Respond
  \/ UnlinkUpload

SpecRoundTrip == InitRoundTrip /\ [][NextRoundTrip]_vars

\* The backup and order state of a run that only calls a function of the
\* restore controller.
RestoreOnly ==
  /\ ShopIdle
  /\ user_rows = Users \cup {adminUser}
  /\ backups = {}
  /\ backups_id_seq = 1
  /\ disk = <<>>
  /\ site_settings = AUTO_BACKUP_DEFAULTS(FALSE)
  /\ clock = 1
  /\ isAutoBackupRunning = FALSE
  /\ job = [j \in Jobs |-> NoJob]
  /\ liveRows = [j \in Jobs |-> NoRows]
  /\ env = [isWindows |-> FALSE, BACKUP_DIR |-> ""]

\* The strings of at most n characters of the given alphabet.
RECURSIVE StringsUpTo(_, _)
StringsUpTo(alphabet, n) ==
  IF n = 0 THEN { <<>> }
  ELSE StringsUpTo(alphabet, n - 1)
         \cup { Append(t, c) : t \in StringsUpTo(alphabet, n - 1), c \in alphabet }

\* The characters of the texts: a letter, a blank, and the three characters
\* the scanner looks for.
SqlChars == {"a", " ", ";", "'", "$"}

InitSplit ==
  /\ RestoreOnly
  /\ restore \in { [NoRestore EXCEPT !.sqlContent = t] : t \in StringsUpTo(SqlChars, MaxText) }

\* const statements = splitSqlStatements(transformedSql)
SplitStatements ==
  /\ restore.pc = "idle"
  /\ restore' = [restore EXCEPT !.statements = splitSqlStatements(restore.sqlContent),
                                !.pc = "split"]
  /\ UNCHANGED exceptRestore

NextSplit == SplitStatements

SpecSplit == InitSplit /\ [][NextSplit]_vars

\* The characters of the field values: two letters, the quote, and the two
\* characters the COPY format escapes.
ValueChars == {"a", "t", "'", Backslash, TAB}

\* The values of a column: NULL and the short strings.
FieldValues == { null } \cup StringsUpTo(ValueChars, MaxValue)

\* The rows of a table of one or of two columns.
FieldRows == { << v >> : v \in FieldValues } \cup { << v, w >> : v \in FieldValues, w \in FieldValues }

InitCopy ==
  /\ RestoreOnly
  /\ restore \in { [NoRestore EXCEPT !.fields = row] : row \in FieldRows }

\* pg_dump writes the row into the COPY block of its table.
DumpRow ==
  /\ restore.pc = "idle"
  /\ restore' = [restore EXCEPT !.rowLine = copyRowLine(restore.fields), !.pc = "dumped"]
  /\ UNCHANGED exceptRestore

\* transformPlainSqlDump(sanitizedSql) on the COPY block that holds the row.
TransformRow ==
  /\ restore.pc = "dumped"
  /\ restore' = [restore EXCEPT
                   !.inserts = transformCopyRows("users", Len(restore.fields), << restore.rowLine >>),
                   !.pc = "transformed"]
  /\ UNCHANGED exceptRestore

NextCopy == DumpRow \/ TransformRow

SpecCopy == InitCopy /\ [][NextCopy]_vars

----------------------------------------------------------------------------
(* Properties of status updates *)

\* Total quantity the rows of an order hold for product p.
RECURSIVE Qty(_, _)
Qty(rows, p) ==
  IF Len(rows) = 0 THEN 0
  ELSE (IF rows[Len(rows)].product_id = p THEN rows[Len(rows)].quantity ELSE 0)
       + Qty(SubSeq(rows, 1, Len(rows) - 1), p)

OrderById(id) == CHOOSE o \in orders : o.id = id

\* Handler h answers 200 to its status update in this step.
StatusUpdated(h) == pc[h] = "commitStatus" /\ pc'[h] = "idle" /\ res'[h] = 200

\* C1: a successful updateOrderStatus(order, 'cancelled') on an order that is
\* not cancelled adds to every product's stock_quantity exactly the quantity
\* the order's items hold for it; on an order that is already cancelled it
\* leaves every stock_quantity unchanged.
CancelRestoresStockOnce ==
  [][\A h \in Handlers :
       (StatusUpdated(h) /\ req[h].status = "cancelled") =>
         \A p \in Products :
           stock'[p] = stock[p]
                       + (IF OrderById(req[h].id).status # "cancelled"
                          THEN Qty(SelectItems(order_items, req[h].id), p)
                          ELSE 0)]_vars

\* Order 1 has been cancelled and its stock restored, and a second cancel of
\* order 1 has run all its queries and is about to commit.
RecancelWitness ==
  /\ OrderById(1).status = "cancelled"
  /\ stock[1] = InitStock + MaxQty
  /\ \E h \in Handlers :
       /\ pc[h] = "commitStatus"
       /\ req[h].id = 1
       /\ req[h].status = "cancelled"
       /\ tx[h].wasCancelled

StatusRank(s) ==
  CASE s = "pending" -> 1
    [] s = "processing" -> 2
    [] s = "shipped" -> 3
    [] s = "delivered" -> 4
    [] OTHER -> 5

\* The transitions of the order state machine (a call may also keep the status).
LegalTransition(s, t) ==
  \/ s = t
  \/ /\ s \notin {"delivered", "cancelled"}
     /\ t = "cancelled" \/ StatusRank(t) > StatusRank(s)

\* C2: no updateOrderStatus call changes the status of a delivered or
\* cancelled order, and none moves an order backwards: every change of a
\* status goes forward along pending, processing, shipped, delivered or from
\* one of the first three to cancelled.
StatusFollowsStateMachine ==
  [][\A o \in orders : \A n \in orders' :
       n.id = o.id => LegalTransition(o.status, n.status)]_vars

\* Per product, the quantity held by the orders that are cancelled now.
RECURSIVE CancelledQty(_, _)
CancelledQty(os, p) ==
  IF os = {} THEN 0
  ELSE LET o == CHOOSE x \in os : TRUE
       IN (IF o.status = "cancelled" THEN Qty(SelectItems(order_items, o.id), p) ELSE 0)
          + CancelledQty(os \ {o}, p)

\* C3: however many cancel requests run, and however they interleave, the
\* stock of each product has been increased exactly once by the quantity of
\* each cancelled order's items.
ConcurrentCancelRestoresOnce ==
  \A p \in Products : stock[p] = InitStock + CancelledQty(orders, p)

\* Order 1 is cancelled, one cancel of it has answered and the other, which
\* waited for the row lock, found it cancelled.
ConcurrentCancelWitness ==
  /\ OrderById(1).status = "cancelled"
  /\ \E h \in Handlers, g \in Handlers :
       /\ h # g
       /\ res[g] = 200 /\ pc[g] = "idle"
       /\ pc[h] = "update" /\ req[h].id = 1 /\ tx[h].wasCancelled
       /\ nreq = 2

----------------------------------------------------------------------------
(* Properties of the order numbers *)

\* C4: no two committed orders have the same order_number.
UniqueOrderNumbers ==
  \A a \in orders : \A b \in orders :
    a.id # b.id => a.order_number # b.order_number

\* Two orders are committed and a create that read the same next number as
\* one of them has had its INSERT rejected by the unique index.
CollisionWitness ==
  /\ Cardinality(orders) >= 2
  /\ \E h \in Handlers : tx[h].error = "23505"

\* The k-th order number of a day: the bare base, then base-2, base-3, ...
NthNumber(base, k) ==
  IF k = 1 THEN base ELSE base \o <<"-">> \o String(k)

\* The committed order numbers of a day.
NumbersOfDay(base) ==
  { o.order_number : o \in { x \in orders : StartsWith(x.order_number, base) } }

\* The committed numbers of every day are the base, base-2, ..., base-n.
DailyNumbersContiguous ==
  \A d \in 1..Len(Dates) :
    LET base == buildOrderNumberBase(Dates[d])
        nums == NumbersOfDay(base)
    IN nums = { NthNumber(base, k) : k \in 1..Cardinality(nums) }

\* generateOrderNumber returns the base when no committed order of the day
\* exists, and otherwise the number after the last one.
AllocationRule ==
  \A h \in Handlers :
    (pc[h] = "generate" /\ pc'[h] = "insert") =>
      tx'[h].orderNumber = NthNumber(tx[h].base, Cardinality(NumbersOfDay(tx[h].base)) + 1)

\* C5: the orders of one calendar date are numbered base, base-2, base-3, ...
\* with no gap in whatever order the concurrent creates run, and every
\* allocation returns the base when it is unused and otherwise the number
\* with the largest existing suffix plus one.
OrderNumbersFollowSequence ==
  []DailyNumbersContiguous /\ [][AllocationRule]_vars

\* Three orders of the first day are committed: base, base-2 and base-3.
ThirdOrderWitness ==
  LET base == buildOrderNumberBase(Dates[1])
  IN /\ Cardinality(NumbersOfDay(base)) >= 3
     /\ \E o \in orders : o.order_number = base \o <<"-", "3">>

\* C6: a create whose INSERT collides on order_number allocates again and
\* retries in the same transaction: it ends in an error because of a
\* collision only when its fifth attempt collided.
CollisionRetriedFiveTimes ==
  \A h \in Handlers :
    (pc[h] = "rollback" /\ tx[h].error \in {"23505", "25P02"}) =>
      tx[h].attempt = maxRetries - 1

----------------------------------------------------------------------------
(* Properties of order creation *)

\* Handler h answers 201 to its order request in this step.
OrderPlaced(h) == pc[h] = "commit" /\ pc'[h] = "idle" /\ res'[h] = 201

\* C7: a create that fails at any step leaves no order row, no order_items
\* row and no stock decrement behind and does not touch the cart: the
\* committed tables change only in the step in which a create succeeds.
FailedCreateLeavesNoTrace ==
  [][(\/ orders' # orders
      \/ order_items' # order_items
      \/ stock' # stock
      \/ cart' # cart) => \E h \in Handlers : OrderPlaced(h)]_vars

\* The only request so far has failed after its INSERT INTO orders ran, and
\* the tables are as they were before it.
FailedCreateWitness ==
  /\ nreq = 1
  /\ orders_id_seq = 2
  /\ \E h \in Handlers : pc[h] = "idle" /\ res[h] = 500
  /\ orders = {} /\ order_items = <<>>
  /\ stock = [p \in Products |-> InitStock]
  /\ \E r \in cart : r.user_id = 1

\* The order_items rows Order.create is to write for an order.
ExpectedRows(id, items) ==
  [k \in 1..Len(items) |->
     [ order_id     |-> id,
       product_id   |-> items[k].product_id,
       product_name |-> items[k].product_name,
       quantity     |-> items[k].quantity,
       price        |-> items[k].price,
       subtotal     |-> items[k].subtotal ]]

\* C8: a successful create adds one order with status 'pending' and one
\* order_items row per input item with the item's product_name, quantity,
\* price and subtotal, lowers each product's stock_quantity by exactly the
\* quantity ordered for it, and leaves the user without cart rows.
SuccessfulCreateEffects ==
  [][\A h \in Handlers :
       OrderPlaced(h) =>
         /\ Cardinality(orders' \ orders) = 1
         /\ \A o \in orders' \ orders :
              /\ o.status = "pending"
              /\ SelectItems(order_items', o.id) = ExpectedRows(o.id, req[h].items)
         /\ Len(order_items') = Len(order_items) + Len(req[h].items)
         /\ \A p \in Products : stock'[p] = stock[p] - Qty(req[h].items, p)
         /\ \A r \in cart' : r.user_id # req[h].user_id]_vars

\* User 1 has placed an order of two items, of MaxQty units of product 1 and
\* one unit of product 2, and has no cart rows left.
SuccessfulCreateWitness ==
  /\ res["h1"] = 201 /\ pc["h1"] = "idle"
  /\ Cardinality(orders) = 1
  /\ Len(order_items) = 2
  /\ stock[1] = InitStock - MaxQty
  /\ stock[2] = InitStock - 1
  /\ \A r \in cart : r.user_id # 1

\* C9: every committed order has total_amount equal to the sum of its items'
\* subtotals plus its delivery_charge.
TotalMatchesItems ==
  \A o \in orders :
    o.total_amount = SumSubtotals(SelectItems(order_items, o.id)) + o.delivery_charge

\* C10: every product's stock_quantity is >= 0 in every reachable state.
StockNeverNegative ==
  \A p \in Products : stock[p] >= 0

----------------------------------------------------------------------------
(* Validation of the requests *)

\* C11: every committed order_items row has a positive quantity, so that no
\* order creation increases a product's stock_quantity.
QuantitiesPositive ==
  \A k \in 1..Len(order_items) : order_items[k].quantity > 0

\* C12: Order.create validates that the item list is non-empty: no create
\* with an empty items list commits (it writes no order row and changes
\* neither stock nor the cart).
EmptyOrderRejected ==
  [][\A h \in Handlers : OrderPlaced(h) => req[h].items # <<>>]_vars

\* The committed tables.
store == <<orders, order_items, stock, cart>>

\* C13: a status outside the five values is answered 400 before any
\* transaction is opened or any row written (a transaction is only ever
\* opened for a valid status), and an unknown order id is answered 404, not
\* 400, with the transaction rolled back and no order or stock change.
InvalidRequestsRejected ==
  [][\A h \in Handlers :
       /\ (pc[h] = "idle" /\ pc'[h] = "lock") => req'[h].status \in validStatuses
       /\ (res'[h] = 400 /\ (res[h] # 400 \/ nreq' # nreq)) =>
            /\ pc[h] = "idle" /\ pc'[h] = "idle"
            /\ tx' = tx
            /\ store' = store
       /\ (pc[h] = "lock" /\ pc'[h] = "idle") =>
            /\ \A o \in orders : o.id # req[h].id
            /\ res'[h] = 404
            /\ tx'[h] = NoTx
            /\ store' = store
       /\ (pc[h] = "lock" /\ pc'[h] = "update") =>
            \E o \in orders : o.id = req[h].id]_vars

\* One handler has answered 400 and the other 404, and nothing else was asked.
RejectedWitness ==
  /\ nreq = 2
  /\ \E h \in Handlers, g \in Handlers :
       /\ res[h] = 400 /\ pc[h] = "idle"
       /\ res[g] = 404 /\ pc[g] = "idle"
  /\ stock = [p \in Products |-> InitStock]

\* C14: a status update whose new status is not 'cancelled', or whose order
\* is already cancelled, changes the status of that order and nothing else:
\* every stock_quantity, every order_items row and every other order stay.
PlainUpdateChangesStatusOnly ==
  [][\A h \in Handlers :
       (/\ StatusUpdated(h)
        /\ \/ req[h].status # "cancelled"
           \/ OrderById(req[h].id).status = "cancelled") =>
         /\ stock' = stock
         /\ order_items' = order_items
         /\ cart' = cart
         /\ orders' = { IF o.id = req[h].id THEN [o EXCEPT !.status = req[h].status] ELSE o
                          : o \in orders }]_vars

\* The only request so far was a status update that answered 200 and left no
\* order cancelled: order 1 went from 'pending' to 'shipped'.
PlainUpdateWitness ==
  /\ nreq = 1
  /\ \E h \in Handlers : res[h] = 200 /\ pc[h] = "idle"
  /\ OrderById(1).status = "shipped"
  /\ OrderById(2).status = "pending"
  /\ stock = [p \in Products |-> InitStock]

----------------------------------------------------------------------------
(* Backups *)

\* Positions of createBackupInternal between its first await and its return.
BackupPcs ==
  {"mkdir", "count", "dump", "users", "orders", "order_items", "append", "completed", "failed"}

\* A step with which an invocation of createBackupInternal returns or throws.
InvocationEnds(j) ==
  \/ job[j].pc \in BackupPcs /\ job'[j].pc \notin BackupPcs
  \/ \E drive \in BackupDrives : CreateBackup(j, drive) /\ job'[j].pc = "idle"

\* C15: every invocation of createBackupInternal, by the administrator or by
\* the scheduler, ends with exactly one new row of backups: 'completed' with
\* the file size when the dump, the append and the verification succeeded,
\* 'failed' with the error message otherwise, also when the directory cannot
\* be created or no drive is given; no row is written before the end.
EveryBackupLeavesOneRecord ==
  [][\A j \in Jobs :
       /\ InvocationEnds(j) =>
            \E b \in backups' :
              /\ \A c \in backups : c.id # b.id
              /\ backups' = backups \cup {b}
              /\ \/ /\ b.status = "completed"
                    /\ job[j].pc = "completed"
                    /\ b.file_size = job[j].fileSizeBytes
                 \/ /\ b.status = "failed"
                    /\ b.error_message # ""
       /\ (job[j].pc \in BackupPcs /\ job'[j].pc \in BackupPcs /\ job'[j] # job[j]) =>
            backups' = backups]_vars

\* C16: a backup is recorded as 'completed' only if the rows captured in the
\* appended block of each of users, orders and order_items are at least as
\* many as the table held when the rows were counted before the dump, also
\* when rows are inserted or deleted in between.
CompletedBackupCoversLiveRows ==
  [][\A j \in Jobs :
       (/\ job[j].pc = "completed"
        /\ job'[j].pc # "completed"
        /\ \E b \in backups' \ backups : b.status = "completed") =>
         /\ job[j].usersRows >= liveRows[j].users
         /\ job[j].ordersRows >= liveRows[j].orders
         /\ job[j].orderItemsRows >= liveRows[j].order_items]_vars

\* A tick whose runJob has passed the flag and not yet returned.
TickInProgress(t) == job[t].pc # "idle"

\* C17: no two automated backup jobs are ever in progress: a tick that fires
\* while the job of another tick is running (settings load, backup, last-run
\* save, retention) returns without starting createBackupInternal and without
\* touching the store.
SchedulerTicksDoNotOverlap ==
  /\ [](\A t \in Ticks, u \in Ticks :
          t # u => ~(TickInProgress(t) /\ TickInProgress(u)))
  /\ [][\A t \in Ticks :
          ((\E u \in Ticks \ {t} : TickInProgress(u)) /\ job'[t] # job[t]) =>
            /\ job'[t].pc = "idle"
            /\ job'[t].result = "skipped"
            /\ backups' = backups
            /\ disk' = disk
            /\ site_settings' = site_settings]_vars

\* A tick has returned at the flag while the other tick's job is appending.
SkippedTickWitness ==
  \E t \in Ticks, u \in Ticks :
    /\ job[t].pc = "idle"
    /\ job[t].result = "skipped"
    /\ job[u].pc = "append"
    /\ isAutoBackupRunning

\* Both dates fall in the period one run of the given frequency covers.
SamePeriod(frequency, a, b) ==
  IF frequency = "monthly" THEN isSameMonth(a, b) ELSE isSameDate(a, b)

\* C18: a tick starts a backup only while the settings are enabled, at or
\* after the scheduled instant, and when no automated backup has completed
\* in the current day (daily) or month (monthly), whatever the administrator
\* posts to the settings in between.
AutoBackupRunsOncePerPeriod ==
  [][\A t \in Ticks :
       (job[t].pc = "load" /\ job'[t].pc = "mkdir") =>
         LET nowDate == Instants[clock]
         IN /\ site_settings.enabled
            /\ ~Earlier(nowDate, scheduledInstant(site_settings, nowDate))
            /\ ~\E b \in backups :
                  /\ b.created_by = NULL
                  /\ b.status = "completed"
                  /\ SamePeriod(site_settings.frequency, Instants[b.created_at], nowDate)]_vars

\* C19: when the retention has run with keepMonths = k, no row of backups
\* created more than k months before remains, whatever its status, and the
\* file of every removed row is gone from the disk.
RetentionRemovesOldBackups ==
  [][\A t \in Ticks :
       /\ (job[t].pc = "remove" /\ job'[t].pc = "idle") =>
            \A b \in backups' : ~Earlier(Instants[b.created_at], job[t].cutoff)
       /\ (job[t].pc = "remove" /\ job'[t].pc = "remove") =>
            \A b \in backups \ backups' : b.file_path \notin DOMAIN disk']_vars

\* The marker comments of a table in a file, in file order.
MarkersOf(file, t) ==
  SelectSeq(file, LAMBDA line : line.kind = "marker" /\ line.table = t)

\* The lines between the first COPY line of a table and the \. that closes
\* its block.
CopyBlockRows(file, t) ==
  LET starts == { k \in 1..Len(file) : file[k] = CopyLine(t) }
      start  == CHOOSE k \in starts : \A m \in starts : k <= m
      ends   == { k \in (start + 1)..Len(file) : file[k] = EndLine }
      stop   == IF ends = {} THEN Len(file) + 1 ELSE CHOOSE k \in ends : \A m \in ends : k <= m
  IN SelectSeq(SubSeq(file, start + 1, stop - 1), LAMBDA line : line.kind # "blank")

\* The expected count of a table: the marker when the file has one, the data
\* rows of the COPY block when it has a block and no marker.
ExpectedIs(file, t, expected) ==
  IF MarkersOf(file, t) # <<>>
  THEN expected = MarkersOf(file, t)[1].n
  ELSE (\E k \in 1..Len(file) : file[k] = CopyLine(t)) =>
         expected = Len(CopyBlockRows(file, t))

\* C20: the expected row count restoreDatabase reads for each of users,
\* orders and order_items is the count of the marker comment
\* -- APP_<TABLE>_TOTAL:<n> when the snapshot has one, and only otherwise the
\* number of data rows of the table's COPY block.
ExpectedCountsPreferMarker ==
  restore.pc = "inspected" =>
    /\ ExpectedIs(restore.file, "users", restore.expectedUsersFromBackup)
    /\ ExpectedIs(restore.file, "orders", restore.expectedOrdersFromBackup)
    /\ ExpectedIs(restore.file, "order_items", restore.expectedOrderItemsFromBackup)

----------------------------------------------------------------------------
(* Restores *)

\* The request has been answered.
Answered == restore.response.status # 0

\* The position of the last of the given steps, 0 when none ran.
LastOf(steps, S) ==
  IF \E k \in 1..Len(steps) : steps[k] \in S
  THEN CHOOSE k \in 1..Len(steps) : steps[k] \in S /\ \A j \in (k + 1)..Len(steps) : steps[j] \notin S
  ELSE 0

Replays == {"psql", "psql-tolerant", "pg"}

\* C21: when a restore that reset the schema has been answered, whether its
\* replays succeeded or threw, the repair ran after the last replay and the
\* admin and the super-admin account exist.
RepairFollowsLastReplay ==
  (Answered /\ LastOf(restore.steps, {"reset"}) > 0)
    => /\ LastOf(restore.steps, {"repair"}) > LastOf(restore.steps, Replays)
       /\ restore.db.repaired
       /\ restore.db.operators = Operators

\* C22: when the first verification finds fewer orders or order_items than
\* the snapshot's expected count, zero or not, the recovery pass runs.
ShortfallTriggersRecovery ==
  (restore.response.status = 200 /\ (restore.hasOrdersMismatch \/ restore.hasOrderItemsMismatch))
    => restore.recoveryAt > 0

IsPrefix(s, t) == Len(s) <= Len(t) /\ s = SubSeq(t, 1, Len(s))

\* The steps of the recovery pass so far.
RecoveryPass == SubSeq(restore.steps, restore.recoveryAt + 1, Len(restore.steps))

\* C23: a restore verifies at most twice, so that at most one recovery pass
\* runs; the pass is a reset, the in-process replay, the repair and a recount
\* in this order and never psql; and a report sent after it names a
\* restoreMethod that starts with 'pg-fallback-recovery'.
OneRecoveryPass ==
  /\ Cardinality({ k \in 1..Len(restore.steps) : restore.steps[k] = "count" }) <= 2
  /\ restore.recoveryAt > 0 =>
       /\ restore.steps[restore.recoveryAt] = "count"
       /\ \A k \in 1..(restore.recoveryAt - 1) : restore.steps[k] # "count"
       /\ IsPrefix(RecoveryPass, << "reset", "pg", "repair", "count" >>)
  /\ (restore.recoveryAt > 0 /\ restore.response.status = 200) =>
       /\ RecoveryPass = << "reset", "pg", "repair", "count" >>
       /\ "restoreMethod" \in restore.response.fields =>
            restore.response.restoreMethod[1] = "pg-fallback-recovery"
  /\ (restore.recoveryAt = 0 /\ restore.restoreMethod # <<>>) =>
       restore.restoreMethod[1] # "pg-fallback-recovery"

\* A recovery pass ran and its report was sent.
RecoveryWitness ==
  /\ restore.response.status = 200
  /\ restore.recoveryAt > 0
  /\ restore.response.restoreMethod = << "pg-fallback-recovery", "psql" >>
  /\ restore.db.rows.orders > 0

\* A count of the report is below the count expected from the snapshot.
MismatchPersists ==
  LET r == restore.response
  IN \/ r.expectedUsersFromBackup # NULL /\ r.usersCount < r.expectedUsersFromBackup
     \/ /\ "ordersCount" \in r.fields
        /\ r.expectedOrdersFromBackup # NULL
        /\ r.ordersCount < r.expectedOrdersFromBackup
     \/ /\ "orderItemsCount" \in r.fields
        /\ r.expectedOrderItemsFromBackup # NULL
        /\ r.orderItemsCount < r.expectedOrderItemsFromBackup

\* C24: the warning of a report is not null exactly when one of its counts is
\* below the expected count.
WarningIffMismatchPersists ==
  restore.response.status = 200 => ((restore.response.warning # <<>>) <=> MismatchPersists)

VerificationReport ==
  {"usersCount", "ordersCount", "orderItemsCount", "expectedUsersFromBackup",
   "expectedOrdersFromBackup", "expectedOrderItemsFromBackup", "restoreMethod",
   "skippedStatements", "warning"}

\* C25: every success response carries the nine fields of the report.
SuccessCarriesFullReport ==
  restore.response.status = 200 => restore.response.fields = VerificationReport

RECURSIVE ReplayPath(_)
ReplayPath(steps) ==
  IF Len(steps) = 0 \/ Head(steps) = "count" THEN <<>>
  ELSE IF Head(steps) \in Replays \cup {"reset"}
       THEN << Head(steps) >> \o ReplayPath(Tail(steps))
       ELSE ReplayPath(Tail(steps))

\* The path the replay strategy prescribes after psql ended as given.
PrescribedPath(class) ==
  IF class = "" THEN << "reset", "psql" >>
  ELSE IF class = "permission" THEN << "reset", "psql", "psql-tolerant" >>
  ELSE << "reset", "psql", "reset", "pg" >>

PrescribedMethod(class) ==
  IF class = "" THEN "psql"
  ELSE IF class = "permission" THEN "psql-tolerant"
  ELSE IF class = "missing" THEN "pg-fallback(no-psql)"
  ELSE "pg-fallback(psql-failed)"

\* C28: psql runs first; a missing psql and a failure that is not of the
\* permission class lead to a reset and the in-process replay, a failure of
\* the permission class to one tolerant run of psql; the report names the
\* path that ran last.
ReplayFollowsFallbackOrder ==
  /\ IsPrefix(ReplayPath(restore.steps), PrescribedPath(restore.psqlError.class))
  /\ "repair" \in { restore.steps[k] : k \in 1..Len(restore.steps) } =>
       ReplayPath(restore.steps) = PrescribedPath(restore.psqlError.class)
  /\ (restore.response.status = 200 /\ "restoreMethod" \in restore.response.fields) =>
       restore.response.restoreMethod[Len(restore.response.restoreMethod)]
         = PrescribedMethod(restore.psqlError.class)

\* C27: a restore of the file of a backup that ends in its in-process replay
\* or after its verification succeeds, leaves as many users, orders and
\* order_items as the store had when the backup began, and reports these
\* numbers as the expected counts.
RoundTripReproducesCounts ==
  (Answered /\ LastOf(restore.steps, {"pg", "count"}) = Len(restore.steps)
     /\ Len(restore.steps) > 0)
    => /\ restore.response.status = 200
       /\ restore.db.rows = [t \in CriticalTables |-> liveRows["m"][t]]
       /\ "expectedOrdersFromBackup" \in restore.response.fields
       /\ restore.response.expectedUsersFromBackup = liveRows["m"].users
       /\ restore.response.expectedOrdersFromBackup = liveRows["m"].orders
       /\ restore.response.expectedOrderItemsFromBackup = liveRows["m"].order_items

\* The opening tag of a dollar-quoted block that begins at position i of the
\* text, <<>> when none begins there.
DollarTag(text, i) ==
  LET closes == { k \in (i + 1)..Len(text) :
                    text[k] = "$" /\ \A j \in (i + 1)..(k - 1) : text[j] \in TagChars }
  IN IF text[i] # "$" \/ closes = {} THEN <<>>
     ELSE SubSeq(text, i, CHOOSE k \in closes : TRUE)

\* The positions from i on of the semicolons outside every single-quoted
\* literal and every dollar-quoted block.  mode is <<>> in plain text, a quote
\* inside a literal (where a quote toggles, so that '' stays inside), and the
\* tag inside a dollar-quoted block.
RECURSIVE OutsideSemicolons(_, _, _)
OutsideSemicolons(text, i, mode) ==
  IF i > Len(text) THEN {}
  ELSE IF mode = << "'" >>
  THEN OutsideSemicolons(text, i + 1, IF text[i] = "'" THEN <<>> ELSE mode)
  ELSE IF mode # <<>>
  THEN IF StartsWith(SubSeq(text, i, Len(text)), mode)
       THEN OutsideSemicolons(text, i + Len(mode), <<>>)
       ELSE OutsideSemicolons(text, i + 1, mode)
  ELSE IF text[i] = "'" THEN OutsideSemicolons(text, i + 1, << "'" >>)
  ELSE IF DollarTag(text, i) # <<>>
  THEN OutsideSemicolons(text, i + Len(DollarTag(text, i)), DollarTag(text, i))
  ELSE (IF text[i] = ";" THEN {i} ELSE {}) \cup OutsideSemicolons(text, i + 1, <<>>)

\* The pieces of the text from position start on when it is cut after each
\* of the given positions.
RECURSIVE PiecesFrom(_, _, _)
PiecesFrom(text, start, cuts) ==
  LET ahead == { c \in cuts : c >= start }
  IN IF ahead = {} THEN << SubSeq(text, start, Len(text)) >>
     ELSE LET c == CHOOSE k \in ahead : \A m \in ahead : k <= m
          IN << SubSeq(text, start, c) >> \o PiecesFrom(text, c + 1, cuts)

RECURSIVE Concat(_)
Concat(seqs) == IF Len(seqs) = 0 THEN <<>> ELSE Head(seqs) \o Concat(Tail(seqs))

NonBlank(text) == SelectSeq(text, LAMBDA c : c \notin Whitespace)

literalValue(literal) ==
  IF literal = << "N", "U", "L", "L" >> THEN null
  ELSE replaceAll(SubSeq(literal, 2, Len(literal) - 1), << "'", "'" >>, << "'" >>)

\* C30: the row of a COPY block becomes one INSERT with one value per field,
\* and each value is the value of the field that the dump wrote.
CopyRowRestoredUnchanged ==
  restore.pc = "transformed" =>
    /\ Len(restore.inserts) = 1
    /\ Len(restore.inserts[1].literals) = Len(restore.fields)
    /\ \A k \in 1..Len(restore.fields) :
         literalValue(restore.inserts[1].literals[k]) = restore.fields[k]

----------------------------------------------------------------------------
(* Snapshot blocks, sequences, replay statistics and the remaining properties *)

\* rows.length of the three SELECT * of an invocation.
RowsRead(j) ==
  [ users       |-> job[j].usersRows,
    orders      |-> job[j].ordersRows,
    order_items |-> job[j].orderItemsRows ]

\* C31: the file of a backup whose blocks were appended and verified holds,
\* for every critical table, empty ones included, one marker whose number is
\* the number of rows read for the table and the number of INSERT lines of
\* the table's block.
MarkerBlocksCountRows ==
  \A j \in Jobs :
    (job[j].pc = "completed" /\ job[j].filePath \in DOMAIN disk) =>
      \A t \in CriticalTables :
        LET markers == MarkersOf(disk[job[j].filePath], t)
        IN /\ Len(markers) = 1
           /\ markers[1].n = RowsRead(j)[t]
           /\ insertStatements(disk[job[j].filePath], t) = markers[1].n

\* nextval(seq): the sequence advances unless its value was never handed out.
nextval(sequence) ==
  IF sequence.is_called THEN sequence.last_value + 1 ELSE sequence.last_value

\* setval(seq, value, is_called)
setval(value, is_called) == [last_value |-> value, is_called |-> is_called]

\* COALESCE((SELECT MAX(id) FROM table), 1)
coalesceMaxId(ids) == IF ids = {} THEN 1 ELSE SetMax(ids)

\* A synchronisation that leaves the sequence on max(id) as a value not yet
\* handed out.
syncTableSequenceNotCalled(ids) == setval(coalesceMaxId(ids), FALSE)

\* SELECT setval($1, COALESCE((SELECT MAX(id) FROM table), 1), true)
syncTableSequence(ids) == setval(coalesceMaxId(ids), TRUE)

\* A table after the replay: its rows carry the ids of the snapshot, and its
\* sequence is where CREATE TABLE or a setval of the snapshot left it.
InitSequence ==
  /\ RestoreOnly
  /\ restore \in
       { [NoRestore EXCEPT !.ids = ids, !.serial = serial,
                           !.sequence = setval(last_value, is_called)] :
           ids \in SUBSET (1..MaxId), serial \in BOOLEAN,
           last_value \in 1..MaxId, is_called \in BOOLEAN }

\* One turn of the loop of runPostRestoreRepair: await syncTableSequence(tableName)
\* in its try, which returns when the column has no sequence, and the catch
\* that logs a warning.
SyncTableSequence ==
  /\ restore.pc = "idle"
  /\ \/ /\ ~restore.serial
        /\ restore' = [restore EXCEPT !.pc = "synced"]
     \/ /\ restore.serial
        /\ restore' = [restore EXCEPT !.sequence = syncTableSequence(restore.ids),
                                      !.synced = TRUE,
                                      !.pc = "synced"]
     \/ restore' = [restore EXCEPT !.pc = "warned"]
  /\ UNCHANGED exceptRestore

\* The next natural insert into the table: the id is DEFAULT nextval(seq), and the
\* primary key rejects an id a restored row has.
InsertRow ==
  /\ restore.pc \in {"synced", "warned"}
  /\ restore.serial
  /\ \E id \in { nextval(restore.sequence) } :
       restore' = [restore EXCEPT
                     !.generated = id,
                     !.sequence = setval(id, TRUE),
                     !.ids = IF id \in @ THEN @ ELSE @ \cup {id},
                     !.pc = IF id \in restore.ids THEN "collided" ELSE "inserted"]
  /\ UNCHANGED exceptRestore

NextSequence == SyncTableSequence \/ InsertRow

SpecSequence == InitSequence /\ [][NextSequence]_vars

toUpperCase(word) ==
  CASE word = "alter"   -> "ALTER"
    [] word = "default" -> "DEFAULT"
    [] word = "comment" -> "COMMENT"
    [] OTHER            -> word

\* statement.trim().replace(/\s+/g, ' ').toUpperCase(): a statement is the
\* sequence of its words, which trim and the replacement leave in place.
normalized(statement) == [k \in 1..Len(statement) |-> toUpperCase(statement[k])]

\* String.prototype.startsWith on sequences of words.
startsWith(words, prefix) ==
  Len(prefix) <= Len(words) /\ \A k \in 1..Len(prefix) : words[k] = prefix[k]

\* shouldIgnoreRestoreStatement(statement)
shouldIgnoreRestoreStatement(statement) ==
  \/ startsWith(normalized(statement), << "ALTER", "DEFAULT", "PRIVILEGES" >>)
  \/ startsWith(normalized(statement), << "COMMENT", "ON", "EXTENSION" >>)

\* An error test that matches no message.
isIgnorableRestoreErrorNever(error) == FALSE

\* isIgnorableRestoreError(error): text holds the phrases that occur in the
\* lower-cased message.
isIgnorableRestoreError(error) ==
  \/ "permission denied to change default privileges" \in error.text
  \/ "must be member of role" \in error.text

\* Statements of a snapshot as the splitter returns them.
Statements ==
  { << "ALTER", "DEFAULT", "PRIVILEGES", "GRANT" >>,
    << "alter", "default", "PRIVILEGES" >>,
    << "COMMENT", "ON", "EXTENSION", "plpgsql" >>,
    << "COMMENT", "ON", "TABLE", "orders" >>,
    << "ALTER", "TABLE", "orders", "OWNER" >>,
    << "INSERT", "INTO", "orders" >> }

\* Errors db.query rejects a statement with.
QueryErrors ==
  { [text |-> {"permission denied to change default privileges"}],
    [text |-> {"must be member of role"}],
    [text |-> {"permission denied for table"}],
    [text |-> {}] }

\* No error.
NoError == [text |-> {"ok"}]

InitReplay ==
  /\ RestoreOnly
  /\ restore \in
       { [NoRestore EXCEPT !.statements = statements, !.pc = "replay"] :
           statements \in UNION { [1..n -> Statements] : n \in 0..MaxStatements } }

\* One turn of for (const statement of statements) in restoreWithPgClient, and
\* the return after the last turn.
ReplayStatement ==
  /\ restore.pc = "replay"
  /\ LET k == Len(restore.replayed) + 1
     IN IF k > Len(restore.statements)
        THEN restore' = [restore EXCEPT !.pc = "returned"]
        ELSE IF shouldIgnoreRestoreStatement(restore.statements[k])
        THEN restore' =
               [restore EXCEPT
                  !.skippedStatements = @ + 1,
                  !.replayed = Append(@, [sent |-> FALSE, outcome |-> "skipped",
                                          error |-> NoError])]
        ELSE \/ restore' =
                  [restore EXCEPT
                     !.executedStatements = @ + 1,
                     !.replayed = Append(@, [sent |-> TRUE, outcome |-> "executed",
                                             error |-> NoError])]
             \/ \E error \in QueryErrors :
                  restore' =
                    IF isIgnorableRestoreError(error)
                    THEN [restore EXCEPT
                            !.skippedStatements = @ + 1,
                            !.replayed = Append(@, [sent |-> TRUE, outcome |-> "skipped",
                                                    error |-> error])]
                    ELSE [restore EXCEPT
                            !.pc = "thrown",
                            !.replayed = Append(@, [sent |-> TRUE, outcome |-> "thrown",
                                                    error |-> error])]
  /\ UNCHANGED exceptRestore

NextReplay == ReplayStatement

SpecReplay == InitReplay /\ [][NextReplay]_vars

\* The statements and the errors the replay passes over: privilege and
\* extension-comment statements, and the refusals a restricted role receives.
IgnorableStatement(statement) ==
  \E prefix \in { << "ALTER", "DEFAULT", "PRIVILEGES" >>, << "COMMENT", "ON", "EXTENSION" >> } :
    /\ Len(statement) >= 3
    /\ \A k \in 1..3 : toUpperCase(statement[k]) = prefix[k]

IgnorableError(error) ==
  error.text \cap {"permission denied to change default privileges",
                   "must be member of role"} # {}

\* The number of visited statements with the given outcome.
Outcomes(outcome) ==
  Cardinality({ k \in 1..Len(restore.replayed) : restore.replayed[k].outcome = outcome })

\* C33: the in-process replay visits the statements in order, one entry of the
\* history per statement; an ignorable statement is not sent and is counted as
\* skipped, a statement rejected with an ignorable error is counted as skipped,
\* and the replay goes on after both; any other error ends the replay at that
\* statement; and when the replay returns, executedStatements +
\* skippedStatements is the number of statements.
ReplaySkipsIgnorable ==
  restore.pc \in {"replay", "returned", "thrown"} =>
    /\ Len(restore.replayed) <= Len(restore.statements)
    /\ \A k \in 1..Len(restore.replayed) :
         LET turn == restore.replayed[k]
         IN /\ IgnorableStatement(restore.statements[k]) <=> ~turn.sent
            /\ ~turn.sent => turn.outcome = "skipped"
            /\ (turn.sent /\ turn.error = NoError) => turn.outcome = "executed"
            /\ (turn.sent /\ turn.error # NoError) =>
                 turn.outcome = IF IgnorableError(turn.error) THEN "skipped" ELSE "thrown"
            /\ turn.outcome = "thrown" =>
                 k = Len(restore.replayed) /\ restore.pc = "thrown"
    /\ restore.pc = "thrown" =>
         /\ Len(restore.replayed) > 0
         /\ restore.replayed[Len(restore.replayed)].outcome = "thrown"
    /\ restore.executedStatements = Outcomes("executed")
    /\ restore.skippedStatements = Outcomes("skipped")
    /\ restore.pc = "returned" =>
         /\ Len(restore.replayed) = Len(restore.statements)
         /\ restore.executedStatements + restore.skippedStatements = Len(restore.statements)

\* A replay returned after it passed over an ignorable statement and an
\* ignorable error and executed a third statement.
ReplaySkippedWitness ==
  /\ restore.pc = "returned"
  /\ restore.executedStatements = 1
  /\ restore.skippedStatements = 2
  /\ \E k \in 1..Len(restore.replayed) : ~restore.replayed[k].sent
  /\ \E k \in 1..Len(restore.replayed) :
       restore.replayed[k].sent /\ restore.replayed[k].outcome = "skipped"

\* The days of a month of the calendar (getMonth() is zero-based).
DaysIn(d) ==
  CASE d.month = 1 -> IF d.year = 2028 THEN 29 ELSE 28
    [] d.month = 3 -> 30
    [] OTHER       -> 31

\* Values of new Date() at a tick: the first and the last days of January,
\* February and April of a common and of a leap year, around the configured
\* times.
Calendar ==
  { d \in [ year : {2027, 2028}, month : {0, 1, 3}, date : {1} \cup 27..31,
            hours : {1, 2, 3}, minutes : {0, 30} ] : d.date <= DaysIn(d) }

\* What loadAutoBackupSettings returns to a tick.
LoadedSettings ==
  { normalizeAutoBackupSettings(raw, FALSE) :
      raw \in [ enabled : BOOLEAN, frequency : {"daily", "monthly"},
                time : {<<2, 0>>, <<2, 30>>}, dayOfMonth : {1, 28, 29, 30, 31},
                keepMonths : {3}, drive : {"/"}, lastRunAt : 0..Len(Instants) ] }

InitDue ==
  /\ ShopIdle
  /\ user_rows = Users \cup {adminUser}
  /\ backups = {}
  /\ backups_id_seq = 1
  /\ disk = <<>>
  /\ site_settings \in LoadedSettings
  /\ clock = 1
  /\ isAutoBackupRunning = FALSE
  /\ \E d \in Calendar :
       job = [j \in Jobs |-> IF j = "t1" THEN [NoJob EXCEPT !.now = d] ELSE NoJob]
  /\ liveRows = [j \in Jobs |-> NoRows]
  /\ env = [isWindows |-> FALSE, BACKUP_DIR |-> ""]
  /\ restore = NoRestore

\* shouldRunAutoBackupNow(settings, new Date()) in a tick.
ShouldRunAutoBackupNow ==
  /\ job["t1"].pc = "idle"
  /\ job' = [job EXCEPT !["t1"].settings = site_settings,
                        !["t1"].due = shouldRunAutoBackupNow(site_settings, job["t1"].now),
                        !["t1"].pc = "checked"]
  /\ UNCHANGED <<shopVars, nreq, user_rows, backups, backups_id_seq, disk, site_settings,
                 clock, isAutoBackupRunning, liveRows, env, restore>>

NextDue == ShouldRunAutoBackupNow

SpecDue == InitDue /\ [][NextDue]_vars

\* C34: with the monthly frequency a backup is due exactly when the
\* scheduling is enabled, no backup ran in the current month, and the current
\* instant is not before the configured time on day min(dayOfMonth, last day
\* of the current month); so day 31 falls on the last day of a shorter month.
MonthlyDayClampedToMonth ==
  LET tick     == job["t1"]
      settings == tick.settings
      day      == Min(settings.dayOfMonth, DaysIn(tick.now))
      reached  == \/ tick.now.date > day
                  \/ /\ tick.now.date = day
                     /\ \/ tick.now.hours > settings.time[1]
                        \/ /\ tick.now.hours = settings.time[1]
                           /\ tick.now.minutes >= settings.time[2]
      ranThisMonth == /\ settings.lastRunAt # 0
                      /\ Instants[settings.lastRunAt].year = tick.now.year
                      /\ Instants[settings.lastRunAt].month = tick.now.month
  IN (tick.pc = "checked" /\ settings.frequency = "monthly") =>
       (tick.due <=> (settings.enabled /\ reached /\ ~ranThisMonth))

\* Day 31 was found due on 28 February at the configured time.
LastDayOfFebruaryWitness ==
  /\ job["t1"].pc = "checked"
  /\ job["t1"].due
  /\ job["t1"].settings.frequency = "monthly"
  /\ job["t1"].settings.dayOfMonth = 31
  /\ job["t1"].settings.time = <<2, 30>>
  /\ job["t1"].now = [year |-> 2027, month |-> 1, date |-> 28, hours |-> 2, minutes |-> 30]

\* SUM(CASE WHEN o.status != 'cancelled' THEN oi.quantity ELSE 0 END) of
\* getStockReports for product p, over the given orders and order items.
RECURSIVE total_sold(_, _, _)
total_sold(os, items, p) ==
  IF os = {} THEN 0
  ELSE LET o == CHOOSE x \in os : TRUE
       IN (IF o.status # "cancelled" THEN Qty(SelectItems(items, o.id), p) ELSE 0)
          + total_sold(os \ {o}, items, p)

\* initial_stock of getStockReports.
initial_stock(st, os, items, p) == st[p] + total_sold(os, items, p)

\* C35: no step of an order creation or of a status update changes, for any
\* product, the committed stock_quantity plus the quantities of the product in
\* the orders that are not cancelled; the value stays the initial stock.
StockConserved ==
  [][\A p \in Products :
       initial_stock(stock', orders', order_items', p)
         = initial_stock(stock, orders, order_items, p)]_vars

\* C36: every replay of a restore, the first psql run, the tolerant retry, the
\* in-process fallback and the recovery, is the step right after a reset of
\* the schema.
ReplayStartsOnResetSchema ==
  \A k \in 1..Len(restore.steps) :
    restore.steps[k] \in Replays => (k > 1 /\ restore.steps[k - 1] = "reset")

\* The settings an administrator edits: all but the last-run marker.
AdminSettings(settings) == [settings EXCEPT !.lastRunAt = 0]

\* C37: the save of the last-run marker by a scheduler job leaves enabled,
\* frequency, time, dayOfMonth, keepMonths and drive as the last settings
\* request stored them, also when that request ran during the job's backup,
\* and sets lastRunAt to the job's timestamp.
LastRunSaveKeepsAdminSettings ==
  [][\A t \in Ticks :
       (job[t].pc = "save" /\ job'[t].pc = "retention") =>
         /\ AdminSettings(site_settings') = AdminSettings(site_settings)
         /\ site_settings'.lastRunAt = clock]_vars

\* C38: the flag is set only while the job of a tick is in progress, the step
\* that ends a job, whether the backup was not due, succeeded or failed,
\* leaves the flag cleared, and a flag that is set is cleared in the end.
FlagAlwaysReleased ==
  /\ [](isAutoBackupRunning => \E t \in Ticks : TickInProgress(t))
  /\ [][\A t \in Ticks :
          (TickInProgress(t) /\ ~TickInProgress(t)') => ~isAutoBackupRunning']_vars
  /\ (isAutoBackupRunning ~> ~isAutoBackupRunning)

\* The job of a tick stored its backup, failed to save the last-run marker,
\* and has ended with the flag cleared.
ReleasedAfterFailureWitness ==
  /\ ~isAutoBackupRunning
  /\ \A t \in Ticks : ~TickInProgress(t)
  /\ \E b \in backups : b.status = "completed"
  /\ site_settings.lastRunAt = 0

\* const client = await db.pool.connect() of Order.create ("create") and of
\* updateOrderStatus ("status"): the pool hands out a client or rejects.
PoolConnect(h, kind) ==
  /\ pc[h] = "idle"
  /\ req[h] = NoReq
  /\ req' = [req EXCEPT ![h] = [kind |-> kind]]
  /\ \/ /\ tx' = [tx EXCEPT ![h] = [NoTx EXCEPT !.client = TRUE]]
        /\ pc' = [pc EXCEPT ![h] = "try"]
        /\ UNCHANGED res
     \/ /\ tx' = [tx EXCEPT ![h] = [NoTx EXCEPT !.error = "connect"]]
        /\ pc' = [pc EXCEPT ![h] = "rejected"]
        /\ res' = [res EXCEPT ![h] = 500]
  /\ UNCHANGED <<orders, order_items, stock, cart, orders_id_seq, now, nreq, bvars>>

\* The try block: it ends with COMMIT, with the ROLLBACK and the return of
\* updateOrderStatus for an order that does not exist, or with the rejection
\* of one of its queries, BEGIN, COMMIT and that ROLLBACK included.
TryBlock(h) ==
  /\ pc[h] = "try"
  /\ \/ /\ pc' = [pc EXCEPT ![h] = "finally"]
        /\ res' = [res EXCEPT ![h] = 200]
        /\ UNCHANGED tx
     \/ /\ req[h].kind = "status"
        /\ pc' = [pc EXCEPT ![h] = "finally"]
        /\ res' = [res EXCEPT ![h] = 404]
        /\ UNCHANGED tx
     \/ /\ pc' = [pc EXCEPT ![h] = "catch"]
        /\ tx' = [tx EXCEPT ![h].error = "query"]
        /\ UNCHANGED res
  /\ UNCHANGED <<orders, order_items, stock, cart, orders_id_seq, now, req, nreq, bvars>>

\* A catch block whose rejected ROLLBACK leaves the function at once.
CatchBlockLeaks(h) ==
  /\ pc[h] = "catch"
  /\ \/ /\ pc' = [pc EXCEPT ![h] = "finally"]
        /\ UNCHANGED tx
     \/ /\ pc' = [pc EXCEPT ![h] = "released"]
        /\ tx' = [tx EXCEPT ![h].error = "rollback"]
  /\ res' = [res EXCEPT ![h] = 500]
  /\ UNCHANGED <<orders, order_items, stock, cart, orders_id_seq, now, req, nreq, bvars>>

\* catch (error) { await client.query('ROLLBACK'); throw error; }: the error
\* of the try block is thrown, or the rejection of the ROLLBACK; the finally
\* block runs before either leaves the function.
CatchBlock(h) ==
  /\ pc[h] = "catch"
  /\ \/ UNCHANGED tx
     \/ tx' = [tx EXCEPT ![h].error = "rollback"]
  /\ pc' = [pc EXCEPT ![h] = "finally"]
  /\ res' = [res EXCEPT ![h] = 500]
  /\ UNCHANGED <<orders, order_items, stock, cart, orders_id_seq, now, req, nreq, bvars>>

\* finally { client.release(); }
FinallyBlock(h) ==
  /\ pc[h] = "finally"
  /\ tx' = [tx EXCEPT ![h].client = FALSE, ![h].releases = @ + 1]
  /\ pc' = [pc EXCEPT ![h] = "released"]
  /\ UNCHANGED <<orders, order_items, stock, cart, orders_id_seq, now, req, res, nreq, bvars>>

InitClient == ShopIdle /\ BackupIdle

NextClient ==
  \/ \E h \in Handlers, kind \in {"create", "status"} : PoolConnect(h, kind)
  \/ \E h \in Handlers : TryBlock(h) \/ CatchBlock(h) \/ FinallyBlock(h)

SpecClient == InitClient /\ [][NextClient]_vars

\* C39: a handler of Order.create or updateOrderStatus holds a client exactly
\* from pool.connect to its finally block, and when it has left the function,
\* after a commit, the not-found return, a failed query or a failed ROLLBACK,
\* it has released the client once; a handler the pool rejected released
\* nothing.
ClientReleasedOnce ==
  \A h \in Handlers :
    /\ tx[h].client <=> pc[h] \in {"try", "catch", "finally"}
    /\ tx[h].releases = IF pc[h] = "released" THEN 1 ELSE 0

\* A status update whose query failed and whose ROLLBACK failed too has
\* released its client.
ReleasedAfterRollbackFailure ==
  \E h \in Handlers :
    /\ req[h].kind = "status"
    /\ pc[h] = "released"
    /\ tx[h].error = "rollback"
    /\ res[h] = 500
    /\ tx[h].releases = 1
    /\ ~tx[h].client

\* Settings objects handed to normalizeAutoBackupSettings: absent fields,
\* values in range, and values beyond each end of the ranges.
RawSettings ==
  [ enabled    : BOOLEAN,
    frequency  : {"", "daily", "monthly", "weekly"},
    time       : {<<>>, <<0, 0>>, <<23, 59>>, <<24, 0>>, <<12, 60>>},
    dayOfMonth : {0 - 1, 0, 1, 15, 31, 32},
    keepMonths : {0 - 1, 0, 1, 4},
    drive      : {"", "D:"},
    lastRunAt  : {0, 1} ]

InitNormalize ==
  /\ ShopIdle
  /\ user_rows = Users \cup {adminUser}
  /\ backups = {}
  /\ backups_id_seq = 1
  /\ disk = <<>>
  /\ site_settings = AUTO_BACKUP_DEFAULTS(FALSE)
  /\ clock = 1
  /\ isAutoBackupRunning = FALSE
  /\ \E raw \in RawSettings :
       job = [j \in Jobs |-> IF j = "m" THEN [NoJob EXCEPT !.settings = raw, !.pc = "payload"]
                             ELSE NoJob]
  /\ liveRows = [j \in Jobs |-> NoRows]
  /\ \E isWindows \in BOOLEAN : env = [isWindows |-> isWindows, BACKUP_DIR |-> ""]
  /\ restore = NoRestore

\* const normalized = normalizeAutoBackupSettings({ ... }) of
\* updateAutoBackupSettings.
NormalizePayload ==
  /\ job["m"].pc = "payload"
  /\ job' = [job EXCEPT !["m"].settings = normalizeAutoBackupSettings(@, env.isWindows),
                        !["m"].pc = "normalized"]
  /\ UNCHANGED <<shopVars, nreq, user_rows, backups, backups_id_seq, disk, site_settings,
                 clock, isAutoBackupRunning, liveRows, env, restore>>

\* saveAutoBackupSettings(normalized): it normalises its argument again and
\* stores the result.
SaveNormalized ==
  /\ job["m"].pc = "normalized"
  /\ site_settings' = normalizeAutoBackupSettings(job["m"].settings, env.isWindows)
  /\ job' = [job EXCEPT !["m"].pc = "saved"]
  /\ UNCHANGED <<shopVars, nreq, user_rows, backups, backups_id_seq, disk, clock,
                 isAutoBackupRunning, liveRows, env, restore>>

NextNormalize == NormalizePayload \/ SaveNormalized

SpecNormalize == InitNormalize /\ [][NextNormalize]_vars

\* Settings in range.
SettingsInRange(settings) ==
  /\ settings.frequency \in {"daily", "monthly"}
  /\ Len(settings.time) = 2
  /\ settings.time[1] \in 0..23
  /\ settings.time[2] \in 0..59
  /\ settings.dayOfMonth \in 1..31
  /\ settings.frequency = "daily" => settings.dayOfMonth = 1
  /\ settings.keepMonths \in Nat
  /\ settings.keepMonths >= 1

\* C40: what normalizeAutoBackupSettings returns is in range, and normalising
\* it again returns it unchanged.
NormalizeIdempotentInRange ==
  /\ job["m"].pc \in {"normalized", "saved"} => SettingsInRange(job["m"].settings)
  /\ job["m"].pc = "saved" => site_settings = job["m"].settings

\* Monthly settings whose day was beyond 31 and whose keepMonths was
\* negative were normalised twice.
ClampedSettingsWitness ==
  /\ job["m"].pc = "saved"
  /\ site_settings.frequency = "monthly"
  /\ site_settings.dayOfMonth = 31
  /\ site_settings.keepMonths = 3
  /\ site_settings.time = <<2, 0>>
  /\ site_settings.drive = "C:"

====
